---- MODULE Spec2Model ----
(***************************************************************************)
(* modgraph: the directed graph of squares modulo N, its partition into    *)
(* weakly-connected subgraphs, and the force field that the minimizer      *)
(* evaluates to place the nodes in three dimensions.                       *)
(*                                                                         *)
(* The repository holds several generations of the program.  Three builds  *)
(* are modelled, each a constructor of modgraph::graph with the functions  *)
(* it calls:                                                               *)
(*   "neato" connect(); partition(); write_neato()                         *)
(*   "gsl"   init_loc(); connect(); minimizer::go(); write_asy(), with the *)
(*           force field of minimizer.cpp (node table nodes_)              *)
(*   "gsl2"  init_loc(); minimizer::go(); write_asy(), with the force      *)
(*           field that asks graph::next(i) for every edge                 *)
(***************************************************************************)
EXTENDS Integers, Sequences, FiniteSets, TLC

VARIABLES
  build,        \* which generation of the program runs
  arg,          \* the command line: "none" (argc != 2), "text", or an integer
  pc,           \* position of the run
  m,            \* modulus handed to graph::graph(int m)
  nodes_,       \* graph::nodes_ : offset -> [next, prev, subg]
  subgraphs_,   \* graph::subgraphs_ : sequence of sets of offsets
  cur_off,      \* loop counter of connect()
  n_off,        \* loop counter of partition()
  thrown,       \* exception that left the constructor, or "none"
  positions_,   \* graph::positions_ : offset -> <<x, y, z>>
  x_,           \* the solver's working point s->x
  at_,          \* the argument of the last call of net_force_and_pot
  forces_,      \* minimizer::forces_ : <<i, j>> -> force felt by i from j
  net_forces_,  \* minimizer::net_forces_ : offset -> the summands of its row
  potential_,   \* minimizer::potential_ : the summands added since it was zeroed
  sum_factors,  \* the function-local static 'factors' of sum_attract
  fac_factors,  \* the function-local static 'factors' of factor_attract
  iter,         \* iteration counter of the driver loop
  status,       \* status of the driver loop
  files,        \* names of the files written
  gsl,          \* what the solver holds: the values the callbacks handed
                \* to it, and how often it was allocated and freed
  sq,           \* a single evaluation of the squaring map (SpecNext)
  orbit,        \* the orbit of a node under graph::next (SpecOrbit)
  strided,      \* an array and the gsl::vector views of it (SpecView)
  relax,        \* a hand-written relaxation loop (SpecRelax)
  psys,         \* a particle_system (SpecParticles)
  dyn           \* gsl::vector<DYNAMIC> objects and their buffers (SpecDynamic)

vars == <<build, arg, pc, m, nodes_, subgraphs_, cur_off, n_off, thrown,
          positions_, x_, at_, forces_, net_forces_, potential_,
          sum_factors, fac_factors, iter, status, files, gsl, sq, orbit,
          strided, relax, psys, dyn>>

\* The state of the classes and loops that are followed on their own, which
\* a run of the other generations leaves alone.
lib == <<strided, relax, psys, dyn>>

(***************************************************************************)
(* Bounds of the model.                                                    *)
(***************************************************************************)
MaxN == 8           \* largest modulus that is connected and partitioned
MaxForceN == 7      \* largest modulus whose force field is evaluated
MinArg == 2         \* integers -MinArg .. MaxN are tried as the argument
MaxSnap == 1        \* position snapshots 0 .. MaxSnap
MaxIterModel == 1   \* passes of the driver loop followed one by one
BigSpan == 3        \* moduli SqrtIntMax+1 .. SqrtIntMax+BigSpan are squared
ArgSpan == 8        \* for a large modulus N, nodes N-ArgSpan .. N-1 are squared

(***************************************************************************)
(* 32-bit int arithmetic of the squaring map.                              *)
(***************************************************************************)
SqrtIntMax == 46340 \* largest i with i*i <= INT_MAX = 2^31 - 1
Half == 65536       \* 2^16
Byte == 256         \* 2^8

\* i*i as the two 16-bit halves <<hi, lo>> of the 32-bit product, 0 <= i < 2^16.
SquareHalves(i) ==
  LET a  == i \div Byte
      b  == i % Byte
      t0 == b * b
      t1 == 2 * a * b
      t2 == a * a
      L  == (t1 % Byte) * Byte + t0
  IN  << t2 + (t1 \div Byte) + (L \div Half), L % Half >>

\* The product does not fit in int: signed overflow, undefined behaviour.
SquareOverflows(i) == SquareHalves(i)[1] >= Half \div 2

\* The value the usual two's-complement multiply instruction leaves.
SquareWrapped(i) ==
  LET h == SquareHalves(i)
  IN  IF h[1] >= Half \div 2 THEN (h[1] - Half) * Half + h[2]
                             ELSE h[1] * Half + h[2]

\* C++ '%': the remainder has the sign of the dividend.
CRem(a, n) == IF a >= 0 THEN a % n ELSE -((-a) % n)

\* What (i * i) % n can evaluate to: one value when the product fits; when it
\* overflows, the wrapped remainder, or a trap (a build that traps overflow).
MutSquareModOutcomes(i, n) == {[trap |-> FALSE, val |-> CRem(2 * i, n)]}
SquareModOutcomes(i, n) ==
  IF SquareOverflows(i)
    THEN {[trap |-> FALSE, val |-> CRem(SquareWrapped(i), n)],
          [trap |-> TRUE, val |-> 0]}
    ELSE {[trap |-> FALSE, val |-> CRem(SquareWrapped(i), n)]}

\* graph::next(i) of the build that stores no node table.
graph_next(i, modulus) == SquareModOutcomes(i, modulus)

(***************************************************************************)
(* The command line and the constructor.                                   *)
(***************************************************************************)
Builds == {"neato", "gsl", "gsl2"}

Args == {[kind |-> "none", val |-> 0], [kind |-> "text", val |-> 0]}
        \cup {[kind |-> "int", val |-> v] : v \in (0 - MinArg) .. MaxN}

\* 'unsigned m; iss >> m; graph g(m);' : the int that graph::graph receives.
\* Text that is no number leaves 0.  A negative number is read into the
\* unsigned as 2^32 + v (or clamped to 2^32 - 1) and converts to the int v
\* (or -1).
ParseModulus(a) ==
  IF a.kind = "text" THEN {0}
  ELSE IF a.val < 0 THEN {a.val, -1}
  ELSE {a.val}

\* node::node(): next(-1); subg is tested against -1 before it is set.
NewNode == [next |-> -1, prev |-> <<>>, subg |-> -1]

\* std::vector<node>(m)
NewNodes(n) == [i \in 0 .. n - 1 |-> NewNode]

Offsets == 0 .. m - 1

Idle == <<>>

\* No array is viewed.
NoViews == [mem |-> <<>>, views |-> <<>>, last |-> <<>>]

\* The classes and loops that are followed on their own are not in use.
LibIdle ==
  /\ strided = NoViews
  /\ relax = Idle
  /\ psys = Idle
  /\ dyn = Idle

\* No orbit is followed.
NoOrbit == [cur |-> 0, path |-> <<>>, trap |-> FALSE]

\* No solver has been allocated and no callback has run.
NoSolver == [alloc |-> 0, free |-> 0, grd |-> Idle, grd_at |-> Idle,
             pot |-> Idle, pot_at |-> Idle]

Init ==
  /\ build \in Builds
  /\ arg \in Args
  /\ build # "neato" => arg.val <= MaxForceN
  /\ pc = "main"
  /\ m = 0
  /\ nodes_ = Idle
  /\ subgraphs_ = <<>>
  /\ cur_off = 0
  /\ n_off = 0
  /\ thrown = "none"
  /\ positions_ = Idle
  /\ x_ = Idle
  /\ at_ = Idle
  /\ forces_ = Idle
  /\ net_forces_ = Idle
  /\ potential_ = <<>>
  /\ sum_factors = <<>>
  /\ fac_factors = <<>>
  /\ iter = 0
  /\ status = "none"
  /\ files = {}
  /\ gsl = NoSolver
  /\ orbit = NoOrbit
  /\ LibIdle
  /\ sq = [n |-> 0, i |-> 0, done |-> FALSE, trap |-> FALSE, val |-> 0]

\* main(): the argument count is tested, the argument is read, and the graph
\* is constructed.
Main ==
  /\ pc = "main"
  /\ IF arg.kind = "none"
       THEN /\ pc' = "return1"
            /\ m' = m
       ELSE /\ m' \in ParseModulus(arg)
            /\ pc' = "construct"
  /\ UNCHANGED gsl
  /\ UNCHANGED <<build, arg, nodes_, subgraphs_, cur_off, n_off, thrown,
                 positions_, x_, at_, forces_, net_forces_, potential_,
                 sum_factors, fac_factors, iter, status, files, sq, orbit, lib>>

(***************************************************************************)
(* Positions.  init_loc() draws every coordinate from rand(); the model    *)
(* draws the whole 3xN matrix from a small family of snapshots.            *)
(***************************************************************************)
\* Snapshot 0: the nodes on a line, one unit apart.  Snapshot 1: nodes 2k and
\* 2k+1 at the same place.  Every later snapshot: the nodes on two rows.
Snapshot(k, n) ==
  [i \in 0 .. n - 1 |->
     IF k = 0 THEN <<i, 0, 0>>
     ELSE IF k = 1 THEN <<i \div 2, 0, 2>>
     ELSE <<i \div 2, i % 2, k>>]

\* graph::init_loc(m): m columns, one location for each node.
init_loc(n) == {Snapshot(k, n) : k \in 0 .. MaxSnap}

(***************************************************************************)
(* graph::graph(int m): the member initialisers and the test of m.         *)
(***************************************************************************)
\* The members that the initialiser list constructs, in the order of their
\* declaration, for a modulus that is not negative.
Construct_ok ==
  /\ thrown' = "none"
  /\ CASE build = "neato" ->
            /\ nodes_' = NewNodes(m)
            /\ positions_' = positions_
            /\ pc' = "connect"
       [] build = "gsl" ->
            /\ positions_' \in init_loc(m)
            /\ nodes_' = NewNodes(m)
            /\ pc' = "connect"
       [] build = "gsl2" ->
            /\ positions_' \in init_loc(m)
            /\ nodes_' = nodes_
            /\ pc' = "go"

\* A negative m: std::vector<node>(m) receives m as a size_t above max_size()
\* and throws std::length_error; init_loc(unsigned) is asked for 2^32 + m
\* columns and throws std::bad_alloc.  Both leave the initialiser list, so
\* 'if(m < 0) throw "illegal modulus"' is not reached.
Construct_negative ==
  /\ thrown' = (IF build = "neato" THEN "length_error" ELSE "bad_alloc")
  /\ pc' = "terminate"
  /\ UNCHANGED <<nodes_, positions_>>

Construct ==
  /\ pc = "construct"
  /\ IF m < 0 THEN Construct_negative ELSE Construct_ok
  /\ UNCHANGED gsl
  /\ UNCHANGED <<build, arg, m, subgraphs_, cur_off, n_off, x_, at_, forces_,
                 net_forces_, potential_, sum_factors, fac_factors, iter,
                 status, files, sq, orbit, lib>>

(***************************************************************************)
(* graph::connect()                                                        *)
(***************************************************************************)
\* 'complement' of the node at cur_off, as the oldest generation stores it.
Complement(cur, mod) ==
  IF cur <= mod - cur /\ mod - cur # mod THEN mod - cur ELSE -1

\* The body of the loop for one cur_off whose square modulo m is nxt_off.
MutConnectBodyPrev(nodes, cur, nxt, b) ==
  LET n1 == [nodes EXCEPT ![cur].next = nxt]
      n2 == [n1 EXCEPT ![cur].prev = Append(@, nxt)]
  IN  IF b = "neato"
        THEN [n2 EXCEPT ![cur] = [next |-> n2[cur].next, prev |-> n2[cur].prev,
                                  subg |-> n2[cur].subg,
                                  complement |-> Complement(cur, m)]]
        ELSE n2
ConnectBody(nodes, cur, nxt, b) ==
  LET n1 == [nodes EXCEPT ![cur].next = nxt]
      n2 == [n1 EXCEPT ![nxt].prev = Append(@, cur)]
  IN  IF b = "neato"
        THEN [n2 EXCEPT ![cur] = [next |-> n2[cur].next, prev |-> n2[cur].prev,
                                  subg |-> n2[cur].subg,
                                  complement |-> Complement(cur, m)]]
        ELSE n2

\* One iteration of the loop.  An overflowing square that traps, or an
\* nxt_off outside the vector, ends the run.
ConnectStep ==
  /\ pc = "connect"
  /\ cur_off < m
  /\ \E r \in SquareModOutcomes(cur_off, m) :
       IF r.trap \/ r.val \notin Offsets
         THEN /\ pc' = "crash"
              /\ UNCHANGED <<nodes_, cur_off>>
         ELSE /\ nodes_' = ConnectBody(nodes_, cur_off, r.val, build)
              /\ cur_off' = cur_off + 1
              /\ pc' = pc
  /\ UNCHANGED gsl
  /\ UNCHANGED <<build, arg, m, subgraphs_, n_off, thrown, positions_, x_, at_,
                 forces_, net_forces_, potential_, sum_factors, fac_factors,
                 iter, status, files, sq, orbit, lib>>

\* The loop ends; the constructor goes on.
MutConnectExit ==
  /\ pc = "connect"
  /\ pc' = (IF build = "neato" THEN "partition" ELSE "go")
  /\ UNCHANGED gsl
  /\ UNCHANGED <<build, arg, m, nodes_, subgraphs_, cur_off, n_off, thrown,
                 positions_, x_, at_, forces_, net_forces_, potential_,
                 sum_factors, fac_factors, iter, status, files, sq, orbit, lib>>
ConnectExit ==
  /\ pc = "connect"
  /\ ~(cur_off < m)
  /\ pc' = (IF build = "neato" THEN "partition" ELSE "go")
  /\ UNCHANGED gsl
  /\ UNCHANGED <<build, arg, m, nodes_, subgraphs_, cur_off, n_off, thrown,
                 positions_, x_, at_, forces_, net_forces_, potential_,
                 sum_factors, fac_factors, iter, status, files, sq, orbit, lib>>

(***************************************************************************)
(* graph::partition(), graph::traverse(), graph::check_node()              *)
(***************************************************************************)
RECURSIVE traverse(_, _, _), check_node(_, _, _), traverse_prev(_, _, _, _)

\* st = [nodes, subgraphs, thrown, depth, deepest]; a thrown exception
\* unwinds every caller.  depth counts the calls of traverse() that have not
\* returned, deepest is the greatest depth so far.
Entry(nodes, subgraphs) ==
  [nodes |-> nodes, subgraphs |-> subgraphs, thrown |-> "none", depth |-> 0,
   deepest |-> 0]

Enter(st) ==
  [st EXCEPT !.depth = @ + 1,
             !.deepest = IF st.depth + 1 > @ THEN st.depth + 1 ELSE @]

Leave(st) == [st EXCEPT !.depth = @ - 1]

\* subgraphs_.push_back(subgraph())
PushSubgraph(st) == [st EXCEPT !.subgraphs = Append(@, {})]

check_node(st, n, s) ==
  IF st.thrown # "none" THEN st
  ELSE IF st.nodes[n].subg = -1 THEN Leave(traverse(Enter(st), n, s))
  ELSE IF st.nodes[n].subg # s
    THEN [st EXCEPT !.thrown = "conflict between subgraphs"]
  ELSE st

\* for(int const prv_off: n.prev) check_node(prv_off, s_off), from the k-th on
traverse_prev(st, n, s, k) ==
  IF k > Len(st.nodes[n].prev) \/ st.thrown # "none" THEN st
  ELSE traverse_prev(check_node(st, st.nodes[n].prev[k], s), n, s, k + 1)

MutTraverseNextOnly(st, n, s) ==
  LET marked == [st EXCEPT !.nodes[n].subg = s,
                           !.subgraphs[s + 1] = @ \cup {n}]
  IN  check_node(marked, marked.nodes[n].next, s)
MutTraverseInsert(st, n, s) ==
  LET marked == [st EXCEPT !.nodes[n].subg = s,
                           !.subgraphs[s + 1] = @ \cup {s}]
  IN  traverse_prev(check_node(marked, marked.nodes[n].next, s), n, s, 1)
traverse(st, n, s) ==
  LET marked == [st EXCEPT !.nodes[n].subg = s,
                           !.subgraphs[s + 1] = @ \cup {n}]
  IN  traverse_prev(check_node(marked, marked.nodes[n].next, s), n, s, 1)

\* One iteration of the loop of partition().
MutPartitionBody(st, n) ==
  LET s_off == Len(st.subgraphs)
  IN  Leave(traverse(Enter(PushSubgraph(st)), n, s_off))
PartitionBody(st, n) ==
  IF st.nodes[n].subg = -1
    THEN LET s_off == Len(st.subgraphs)
         IN  Leave(traverse(Enter(PushSubgraph(st)), n, s_off))
    ELSE st

PartitionStep ==
  /\ pc = "partition"
  /\ n_off < m
  /\ LET st == PartitionBody(Entry(nodes_, subgraphs_), n_off)
     IN  /\ nodes_' = st.nodes
         /\ subgraphs_' = st.subgraphs
         /\ thrown' = st.thrown
         /\ IF st.thrown = "none"
              THEN /\ n_off' = n_off + 1
                   /\ pc' = pc
              ELSE /\ n_off' = n_off
                   /\ pc' = "terminate"
  /\ UNCHANGED gsl
  /\ UNCHANGED <<build, arg, m, cur_off, positions_, x_, at_, forces_,
                 net_forces_, potential_, sum_factors, fac_factors, iter,
                 status, files, sq, orbit, lib>>

PartitionExit ==
  /\ pc = "partition"
  /\ ~(n_off < m)
  /\ pc' = "write_neato"
  /\ UNCHANGED gsl
  /\ UNCHANGED <<build, arg, m, nodes_, subgraphs_, cur_off, n_off, thrown,
                 positions_, x_, at_, forces_, net_forces_, potential_,
                 sum_factors, fac_factors, iter, status, files, sq, orbit, lib>>

(***************************************************************************)
(* graph::write_neato(): one file for each subgraph.                       *)
(***************************************************************************)
NeatoFile(s_off) ==
  [name |-> <<m, s_off, "neato">>,
   edges |-> {<<n, nodes_[n].next>> : n \in subgraphs_[s_off + 1]},
   links |-> {<<n, nodes_[n].complement>> :
                n \in {k \in subgraphs_[s_off + 1] : nodes_[k].complement > -1}}]

WriteNeato ==
  /\ pc = "write_neato"
  /\ files' = files \cup {NeatoFile(s) : s \in 0 .. Len(subgraphs_) - 1}
  /\ pc' = "return0"
  /\ UNCHANGED gsl
  /\ UNCHANGED <<build, arg, m, nodes_, subgraphs_, cur_off, n_off, thrown,
                 positions_, x_, at_, forces_, net_forces_, potential_,
                 sum_factors, fac_factors, iter, status, sq, orbit, lib>>

(***************************************************************************)
(* The force field of modgraph::minimizer.                                 *)
(*                                                                         *)
(* A force between two nodes is a sum of terms along the unit vector u     *)
(* from the one to the other, at distance r.  A term is kept as written    *)
(* in the code, with its exact spring constant <<numerator, denominator>>: *)
(*   law "inv_sq"  potential 1/r,        force -u/(r*r)                    *)
(*   law "spring"  potential 0.5*k*r*r,  force u*k*r                       *)
(* 'by' names the function that added the term.                            *)
(***************************************************************************)
edge_attract_ == <<3, 2>>      \* 1.5
sum_attract_ == <<15, 1>>      \* 15.0
factor_attract_ == <<150, 1>>  \* 150.0

RatInv(q) == <<q[2], q[1]>>
RatDivInt(q, n) == <<q[1], q[2] * n>>
RatMulInt(n, q) == <<n * q[1], q[2]>>
RatEq(p, q) == p[1] * q[2] = q[1] * p[2]
RatAdd(p, q) == <<p[1] * q[2] + q[1] * p[2], p[2] * q[2]>>

\* calculate_factors(m): 0, then (in the older generation) 1, then every
\* divisor from 2 to m/2.
calculate_factors(mod, b) ==
  (IF b = "gsl" THEN <<0, 1>> ELSE <<0>>)
  \o SelectSeq([k \in 1 .. (mod \div 2) - 1 |-> k + 1],
               LAMBDA d : mod % d = 0)

\* minimizer::attract(k, u, r)
attract(k, by) == [law |-> "spring", k |-> k, by |-> by]

\* minimizer::repulsion(u, r)
repulsion == <<[law |-> "inv_sq", k |-> <<1, 1>>, by |-> "repulsion"]>>

\* The successor of node i as the force field reads it.
NextOf(i) ==
  IF build = "gsl2"
    THEN (CHOOSE r \in graph_next(i, m) : ~r.trap).val
    ELSE nodes_[i].next

\* minimizer::edge_attract(i, j, u, r)
MutEdgeAttract(i, j) ==
  (IF NextOf(i) = j THEN <<attract(RatInv(edge_attract_), "edge")>> ELSE <<>>)
  \o (IF NextOf(j) = i THEN <<attract(RatInv(edge_attract_), "edge")>> ELSE <<>>)
edge_attract(i, j) ==
  IF NextOf(i) = j \/ NextOf(j) = i
    THEN <<attract(RatInv(edge_attract_), "edge")>>
    ELSE <<>>

\* minimizer::sum_attract(i, j, u, r): the terms added while the loop runs
\* over factors[k], factors[k+1], ...
RECURSIVE sum_attract_from(_, _, _, _)
sum_attract_from(i, j, factors, k) ==
  IF k > Len(factors) THEN <<>>
  ELSE LET n   == factors[k]
           sum == (i + j) % m
           c   == RatInv(sum_attract_)
           b   == RatDivInt(c, m)
           a   == RatMulInt(n, b)
       IN  (IF sum = n THEN <<attract(IF n = 0 THEN c ELSE a, "sum")>>
                       ELSE <<>>)
           \o (IF m - sum = n THEN <<attract(a, "sum")>> ELSE <<>>)
           \o sum_attract_from(i, j, factors, k + 1)

sum_attract(i, j, factors) == sum_attract_from(i, j, factors, 1)

\* minimizer::factor_attract(i, j, u, r)
RECURSIVE factor_attract_from(_, _, _, _)
factor_attract_from(i, j, factors, k) ==
  IF k > Len(factors) THEN <<>>
  ELSE LET n == factors[k]
           c == RatInv(factor_attract_)
           b == RatDivInt(c, m)
           a == RatMulInt(n, b)
       IN  (IF i = n \/ j = n
              THEN <<attract(IF n = 0 THEN c ELSE a, "factor")>>
              ELSE <<>>)
           \o (IF i = m - n \/ j = m - n THEN <<attract(a, "factor")>>
                                         ELSE <<>>)
           \o factor_attract_from(i, j, factors, k + 1)

factor_attract(i, j, factors) == factor_attract_from(i, j, factors, 1)

\* The static 'factors' of a function: initialised by the first call.
StaticFactors(static) ==
  IF static = <<>> THEN calculate_factors(m, build) ELSE static

VecSub(p, q) == <<p[1] - q[1], p[2] - q[2], p[3] - q[3]>>
VecNeg(p) == <<0 - p[1], 0 - p[2], 0 - p[3]>>
Norm2(d) == d[1] * d[1] + d[2] * d[2] + d[3] * d[3]

\* Vector3d::Zero(): no term, and no division has taken place.
ZeroForce == [d |-> <<0, 0, 0>>, r2 |-> 0, terms |-> <<>>, div0 |-> FALSE]

\* minimizer::force_and_pot(i, j, pos): the force felt by i from j, along
\* u = d / r with d = pos.col(j) - pos.col(i) and r * r = r2.  Nothing tests
\* r before 'd / r', '1.0 / r' and '-u / (r * r)': div0 records that they
\* were evaluated with r = 0, which leaves NaN in the force and an infinite
\* or NaN potential (or traps, in a build that traps division by zero).
force_and_pot(i, j, pos) ==
  IF i = j THEN ZeroForce
  ELSE LET d == VecSub(pos[j], pos[i])
       IN  [d |-> d, r2 |-> Norm2(d), div0 |-> (Norm2(d) = 0),
            terms |-> repulsion
                      \o edge_attract(i, j)
                      \o sum_attract(i, j, StaticFactors(sum_factors))
                      \o factor_attract(i, j, StaticFactors(fac_factors))]

\* -f
Negated(f) == [f EXCEPT !.d = VecNeg(@)]

\* The pairs in the order of the two nested loops: i, then j from i + 1.
RECURSIVE PairsFrom(_, _, _)
PairsFrom(i, j, n) ==
  IF i >= n THEN <<>>
  ELSE IF j >= n THEN PairsFrom(i + 1, i + 2, n)
  ELSE <<<<i, j>>>> \o PairsFrom(i, j + 1, n)

Pairs(n) == PairsFrom(0, 1, n)

\* The calls of force_and_pot in the order of the two nested loops, each with
\* its result f.
RECURSIVE PairForces(_, _)
PairForces(q, pos) ==
  IF q = <<>> THEN <<>>
  ELSE <<force_and_pot(q[1][1], q[1][2], pos)>> \o PairForces(Tail(q), pos)

\* The place of the pair i < j in the order of the loops.
PairIndex(i, j) == i * m - (i * (i + 1)) \div 2 + (j - i)

\* forces_ after the two nested loops: the block (i, j) is f, the block
\* (j, i) is -f, and the rest of the zeroed matrix stays zero.
ForceTable(pos) ==
  LET pf == PairForces(Pairs(m), pos)
  IN  [q \in Offsets \X Offsets |->
         IF q[1] < q[2] THEN pf[PairIndex(q[1], q[2])]
         ELSE IF q[1] > q[2] THEN Negated(pf[PairIndex(q[2], q[1])])
         ELSE ZeroForce]

\* A double that depends on the positions is kept as the exact sum it is.
\* Every spring constant is a multiple of 1 / KDen.  A sum of forces along
\* one coordinate is
\*   spring / KDen - SUM of dc / r2^(3/2) over the entries <<dc, r2>> of rep
\* and div0 tells that a summand was computed with r = 0.
KDen == factor_attract_[1] * m

\* The spring constants of the terms of q, added up, in units of 1 / KDen.
RECURSIVE SpringTotal(_)
SpringTotal(q) ==
  IF q = <<>> THEN 0
  ELSE (IF q[1].law = "spring" THEN (q[1].k[1] * KDen) \div q[1].k[2] ELSE 0)
       + SpringTotal(Tail(q))

RECURSIVE IntSum(_)
IntSum(q) == IF q = <<>> THEN 0 ELSE q[1] + IntSum(Tail(q))

\* forces_.rowwise().sum(), row i: rows 3k, 3k+1, 3k+2 of forces_ hold the
\* forces felt by node k, one column for each other node.
RowSum(table, i) ==
  LET k == i \div 3
      c == (i % 3) + 1
      F(j) == table[<<k, j - 1>>]
  IN  [spring |-> IntSum([j \in 1 .. m |-> SpringTotal(F(j).terms) * F(j).d[c]]),
       rep    |-> [j \in 1 .. m |-> <<F(j).d[c], F(j).r2>>],
       div0   |-> \E j \in 1 .. m : F(j).div0]

\* minimizer::net_force_and_pot(positions): forces_ is zeroed and filled,
\* potential_ is zeroed and receives the terms of every pair in the order of
\* the calls, net_forces_ is the sum of each row of forces_, and the statics
\* of sum_attract and factor_attract are initialised by their first call.
\* f(), df() and fdf() all go through it.
net_force_and_pot(pos) ==
  /\ at_' = pos
  /\ forces_' = ForceTable(pos)
  /\ potential_' = LET q == Pairs(m)
                    IN  [k \in 1 .. Len(q) |->
                           [i |-> q[k][1], j |-> q[k][2],
                            r2 |-> forces_'[q[k]].r2,
                            terms |-> forces_'[q[k]].terms]]
  /\ net_forces_' = [i \in 0 .. 3 * m - 1 |-> RowSum(forces_', i)]
  /\ sum_factors' = IF m > 1 THEN StaticFactors(sum_factors) ELSE sum_factors
  /\ fac_factors' = IF m > 1 THEN StaticFactors(fac_factors) ELSE fac_factors

\* The double potential_: 1/r for every pair, and 0.5*k*r*r for every spring,
\*   spring / (2 * KDen) + SUM of 1 / r2^(1/2) over the entries r2 of rep.
PotentialValue(p) ==
  [spring |-> IntSum([k \in 1 .. Len(p) |-> SpringTotal(p[k].terms) * p[k].r2]),
   rep    |-> [k \in 1 .. Len(p) |-> p[k].r2],
   div0   |-> \E k \in 1 .. Len(p) : p[k].r2 = 0]

(***************************************************************************)
(* The callbacks f, df and fdf that the solver calls.                      *)
(***************************************************************************)
\* -v
Minus(v) ==
  [spring |-> 0 - v.spring,
   rep    |-> [j \in DOMAIN v.rep |-> <<0 - v.rep[j][1], v.rep[j][2]>>],
   div0   |-> v.div0]

\* for(i < grd->size) gsl_vector_set(grd, i, -min.net_forces_(i, 0))
MutGradient(nf) == [i \in 0 .. 3 * m - 1 |-> nf[i]]
Gradient(nf) == [i \in 0 .. 3 * m - 1 |-> Minus(nf[i])]

\* minimizer::f(x, p): evaluates the force field at x, returns potential_.
minimizer_f(x) ==
  /\ net_force_and_pot(x)
  /\ gsl' = [gsl EXCEPT !.pot = PotentialValue(potential_'), !.pot_at = x]

\* minimizer::df(x, p, grd): f(x, p), its result unused, then the gradient.
minimizer_df(x) ==
  /\ net_force_and_pot(x)
  /\ gsl' = [gsl EXCEPT !.grd = Gradient(net_forces_'), !.grd_at = x]

\* minimizer::fdf(x, p, pot, grd): *pot = f(x, p), then the gradient.
minimizer_fdf(x) ==
  /\ net_force_and_pot(x)
  /\ gsl' = [gsl EXCEPT !.pot = PotentialValue(potential_'), !.pot_at = x,
                        !.grd = Gradient(net_forces_'), !.grd_at = x]

(***************************************************************************)
(* minimizer::go(), minimizer::minimize_gradient()                         *)
(***************************************************************************)
MAX_ITER == 1000000

\* The solver is allocated and set at the caller's positions; setting it
\* calls fdf there.  Whether the library accepts a problem of size 0 or
\* calls its error handler, which aborts, depends on its version.
GoStart ==
  /\ pc = "go"
  /\ \/ /\ x_' = positions_
        /\ net_force_and_pot(positions_)
        /\ gsl' = [gsl EXCEPT !.alloc = @ + 1,
                              !.pot = PotentialValue(potential_'),
                              !.pot_at = positions_,
                              !.grd = Gradient(net_forces_'),
                              !.grd_at = positions_]
        /\ iter' = 0
        /\ status' = "GSL_CONTINUE"
        /\ pc' = "iterate"
     \/ /\ m = 0
        /\ pc' = "abort"
        /\ UNCHANGED <<x_, at_, forces_, net_forces_, potential_, sum_factors,
                       fac_factors, iter, status, gsl>>
  /\ UNCHANGED <<build, arg, m, nodes_, subgraphs_, cur_off, n_off, thrown,
                 positions_, files, sq, orbit, lib>>

\* Inside gsl_multimin_fdfminimizer_iterate the solver calls f, df or fdf at
\* a point of its choice.
Callback ==
  /\ pc = "iterate"
  /\ \E xe \in init_loc(m) :
       \/ minimizer_f(xe)
       \/ minimizer_df(xe)
       \/ minimizer_fdf(xe)
  /\ UNCHANGED <<build, arg, pc, m, nodes_, subgraphs_, cur_off, n_off,
                 thrown, positions_, x_, iter, status, files, sq, orbit, lib>>

\* while(status == GSL_CONTINUE && iter < MAX_ITER), after 'if(status) break'
MutLoopGoesOn(st, it) == st # "GSL_SUCCESS" /\ it < MAX_ITER
LoopGoesOn(st, it) == st = "GSL_CONTINUE" /\ it < MAX_ITER

\* The end of the loop: positions= pos_map(s->x); and the solver is freed
\* with its gradient and its value.
MutLoopExit(xn) ==
  /\ pc' = "write_asy"
  /\ x_' = xn
  /\ positions_' = positions_
  /\ gsl' = gsl
LoopExit(xn) ==
  /\ pc' = "write_asy"
  /\ x_' = xn
  /\ positions_' = xn
  /\ gsl' = [gsl EXCEPT !.free = @ + 1, !.grd = Idle, !.grd_at = Idle,
                        !.pot = Idle, !.pot_at = Idle]

\* One pass of the do-while loop: ++iter; the call of iterate returns.  A
\* status other than 0 breaks out of the loop; otherwise the status is that of
\* the gradient test, and the loop goes on while it is GSL_CONTINUE and
\* iter < MAX_ITER.  The solver's point s->x is the solver's own and is read
\* only when the loop has ended: x_ takes its value then.  The passes are
\* followed one by one for the first MaxIterModel and for the last
\* MaxIterModel before MAX_ITER.
Iterate ==
  /\ pc = "iterate"
  /\ iter < MaxIterModel \/ iter >= MAX_ITER - MaxIterModel
  /\ iter' = iter + 1
  /\ \E xn \in init_loc(m),
        st \in {"GSL_SUCCESS", "GSL_CONTINUE", "GSL_ENOPROG", "GSL_FAILURE"} :
       /\ status' = st
       /\ IF LoopGoesOn(st, iter')
            THEN /\ pc' = pc
                 /\ UNCHANGED <<positions_, x_, gsl>>
            ELSE LoopExit(xn)
  /\ UNCHANGED <<build, arg, m, nodes_, subgraphs_, cur_off, n_off, thrown,
                 at_, forces_, net_forces_, potential_, sum_factors,
                 fac_factors, files, sq, orbit, lib>>

\* The passes between the first MaxIterModel and the last MaxIterModel, all of
\* which ended with GSL_CONTINUE, taken as one step.
IterateOn ==
  /\ pc = "iterate"
  /\ iter = MaxIterModel
  /\ iter' = MAX_ITER - MaxIterModel
  /\ UNCHANGED <<build, arg, pc, m, nodes_, subgraphs_, cur_off, n_off,
                 thrown, positions_, x_, at_, forces_, net_forces_, potential_,
                 sum_factors, fac_factors, status, files, gsl, sq, orbit, lib>>

(***************************************************************************)
(* graph::write_asy()                                                      *)
(***************************************************************************)
WriteAsy ==
  /\ pc = "write_asy"
  /\ files' = files \cup
       {[name |-> <<m, "asy">>,
         labels |-> positions_,
         arrows |-> {<<i, NextOf(i)>> : i \in {k \in Offsets : NextOf(k) # k}}]}
  /\ pc' = "return0"
  /\ UNCHANGED gsl
  /\ UNCHANGED <<build, arg, m, nodes_, subgraphs_, cur_off, n_off, thrown,
                 positions_, x_, at_, forces_, net_forces_, potential_,
                 sum_factors, fac_factors, iter, status, sq, orbit, lib>>

Next == Main \/ Construct \/ ConnectStep \/ ConnectExit \/ PartitionStep
        \/ PartitionExit \/ WriteNeato \/ GoStart \/ Callback \/ Iterate
        \/ IterateOn \/ WriteAsy

Spec == Init /\ [][Next]_vars

\* Every call of the library returns: a call of iterate makes finitely many
\* calls of f, df and fdf, so a pass of the loop that can end does end.
SpecLive ==
  /\ Init
  /\ [][Next]_vars
  /\ WF_vars(Iterate)
  /\ WF_vars(IterateOn)

(***************************************************************************)
(* The squaring map on its own: one node of one modulus is squared, by     *)
(* graph::next(i) or by the first statement of the loop of connect().      *)
(* The moduli are the small ones and those just above SqrtIntMax.          *)
(***************************************************************************)
SquareModuli == (2 .. MaxN) \cup (SqrtIntMax + 1 .. SqrtIntMax + BigSpan)

InitNext ==
  /\ build \in {"neato", "gsl2"}
  /\ arg = [kind |-> "none", val |-> 0]
  /\ pc = "square"
  /\ m = 0
  /\ nodes_ = Idle
  /\ subgraphs_ = <<>>
  /\ cur_off = 0
  /\ n_off = 0
  /\ thrown = "none"
  /\ positions_ = Idle
  /\ x_ = Idle
  /\ at_ = Idle
  /\ forces_ = Idle
  /\ net_forces_ = Idle
  /\ potential_ = <<>>
  /\ sum_factors = <<>>
  /\ fac_factors = <<>>
  /\ iter = 0
  /\ status = "none"
  /\ files = {}
  /\ gsl = NoSolver
  /\ orbit = NoOrbit
  /\ LibIdle
  /\ \E n \in SquareModuli, k \in 1 .. ArgSpan :
       /\ n - k >= 0
       /\ sq = [n |-> n, i |-> n - k, done |-> FALSE, trap |-> FALSE, val |-> 0]

\* int next(int i) const { return (i * i) % modulus; }
CallNext ==
  /\ pc = "square"
  /\ build = "gsl2"
  /\ ~sq.done
  /\ \E r \in graph_next(sq.i, sq.n) :
       sq' = [sq EXCEPT !.done = TRUE, !.trap = r.trap, !.val = r.val]
  /\ UNCHANGED gsl
  /\ UNCHANGED <<build, arg, pc, m, nodes_, subgraphs_, cur_off, n_off,
                 thrown, positions_, x_, at_, forces_, net_forces_, potential_,
                 sum_factors, fac_factors, iter, status, files, orbit, lib>>

\* int const nxt_off= (cur_off * cur_off) % m;
ConnectSquare ==
  /\ pc = "square"
  /\ build = "neato"
  /\ ~sq.done
  /\ \E r \in SquareModOutcomes(sq.i, sq.n) :
       sq' = [sq EXCEPT !.done = TRUE, !.trap = r.trap, !.val = r.val]
  /\ UNCHANGED gsl
  /\ UNCHANGED <<build, arg, pc, m, nodes_, subgraphs_, cur_off, n_off,
                 thrown, positions_, x_, at_, forces_, net_forces_, potential_,
                 sum_factors, fac_factors, iter, status, files, orbit, lib>>

NextNext == CallNext \/ ConnectSquare

SpecNext == InitNext /\ [][NextNext]_vars

\* (a * b) mod n by doubling, for the statement of the claims.
RECURSIVE MulMod(_, _, _)
MulMod(a, b, n) ==
  IF b = 0 THEN 0
  ELSE (2 * MulMod(a, b \div 2, n) + (b % 2) * (a % n)) % n

\* C1: for every modulus N > 1 and every node i in [0,N), next(i) is
\* (i*i) mod N and lies in [0,N): every node has exactly one outgoing edge.
C1_NextIsSquareMod ==
  sq.done => /\ ~sq.trap
             /\ sq.val \in 0 .. sq.n - 1
             /\ sq.val = MulMod(sq.i, sq.i, sq.n)

(***************************************************************************)
(* The graph and its partition.                                            *)
(***************************************************************************)
\* connect() has returned.
Connected ==
  /\ build \in {"neato", "gsl"}
  /\ pc \in {"partition", "write_neato", "go", "iterate", "write_asy",
             "return0"}

\* partition() is running (between two iterations of its loop) or has returned.
Partitioning == build = "neato" /\ pc \in {"partition", "write_neato", "return0"}

\* partition() has returned.
Partitioned == build = "neato" /\ pc \in {"write_neato", "return0"}

\* The square of i modulo the modulus, as a number.
Sq(i) == (i * i) % m

\* The nodes joined to a node of S by a path that may follow edges of the
\* squaring graph in either direction.
RECURSIVE Weak(_)
Weak(S) ==
  LET T == S \cup {Sq(k) : k \in S} \cup {k \in Offsets : Sq(k) \in S}
  IN  IF T = S THEN S ELSE Weak(T)

\* The subgraphs as a set of sets.
SubgraphSet == {subgraphs_[s] : s \in 1 .. Len(subgraphs_)}

\* How many times j stands in the sequence q.
Count(j, q) == Cardinality({k \in 1 .. Len(q) : q[k] = j})

\* C2: after partition() the subgraphs are a partition of the node set: each
\* node is in exactly one subgraph, no subgraph is empty, their union is
\* [0,N), and the subg of a node is the index of the subgraph that holds it.
C2_TruePartition ==
  Partitioned =>
    /\ \A i \in Offsets :
         /\ Cardinality({s \in 1 .. Len(subgraphs_) : i \in subgraphs_[s]}) = 1
         /\ nodes_[i].subg \in 0 .. Len(subgraphs_) - 1
         /\ i \in subgraphs_[nodes_[i].subg + 1]
    /\ \A s \in 1 .. Len(subgraphs_) :
         /\ subgraphs_[s] # {}
         /\ subgraphs_[s] \subseteq Offsets
         /\ \A t \in 1 .. Len(subgraphs_) :
              s # t => subgraphs_[s] \cap subgraphs_[t] = {}
    /\ UNION SubgraphSet = Offsets

C2_Witness ==
  /\ Partitioned
  /\ m > 4
  /\ \E s \in 1 .. Len(subgraphs_), t \in 1 .. Len(subgraphs_) :
       s # t /\ Cardinality(subgraphs_[s]) > 1 /\ Cardinality(subgraphs_[t]) > 1

\* C3: the subgraphs are the weakly-connected components of the squaring
\* graph: as soon as a node carries a component id, the nodes with the same
\* id are exactly the nodes joined to it by a path that may follow edges in
\* either direction.
C3_WeakComponents ==
  Partitioning =>
    \A i \in Offsets :
      nodes_[i].subg # -1 =>
        {j \in Offsets : nodes_[j].subg = nodes_[i].subg} = Weak({i})

\* A component with a node that is reached only against the direction of an
\* edge from the node the traversal started at, and only through two edges.
C3_Witness ==
  /\ Partitioned
  /\ \E i \in Offsets, j \in Offsets :
       /\ nodes_[i].subg = nodes_[j].subg
       /\ i < j
       /\ \A k \in Offsets : nodes_[k].subg = nodes_[i].subg => i <= k
       /\ Sq(i) # j /\ Sq(j) # i /\ Sq(j) # Sq(i)

\* C4: for every modulus N > 1 the partition has at least two subgraphs.
C4_AtLeastTwo == (Partitioned /\ m > 1) => Len(subgraphs_) >= 2

C4_Witness == Partitioned /\ m > 1 /\ Len(subgraphs_) = 2

\* The successor array as a sequence: element i + 1 is next of node i.
NextArray == [k \in 1 .. m |-> nodes_[k - 1].next]

\* C5: for N = 8 the successor array is [0,1,4,1,0,1,4,1] and partition()
\* yields exactly the two components {0,2,4,6} and {1,3,5,7}.
C5_ModulusEight ==
  /\ (Connected /\ m = 8) => NextArray = <<0, 1, 4, 1, 0, 1, 4, 1>>
  /\ (Partitioned /\ m = 8) =>
       /\ Len(subgraphs_) = 2
       /\ SubgraphSet = {{0, 2, 4, 6}, {1, 3, 5, 7}}

C5_Witness == Partitioned /\ m = 8 /\ pc = "return0"

\* C6: for N = 5 the successor array is [0,1,4,4,1] and partition() yields
\* exactly the two components {0} and {1,2,3,4}.
C6_ModulusFive ==
  /\ (Connected /\ m = 5) => NextArray = <<0, 1, 4, 4, 1>>
  /\ (Partitioned /\ m = 5) =>
       /\ Len(subgraphs_) = 2
       /\ SubgraphSet = {{0}, {1, 2, 3, 4}}

C6_Witness == Partitioned /\ m = 5 /\ pc = "return0"

\* C7: after connect(), prev of node i holds exactly the j with next(j) = i,
\* each once: every node is in exactly one predecessor list, once, and the
\* in-degrees sum to N.
RECURSIVE SumLen(_)
SumLen(n) == IF n = 0 THEN 0 ELSE Len(nodes_[n - 1].prev) + SumLen(n - 1)

C7_Predecessors ==
  Connected =>
    /\ \A i \in Offsets, j \in Offsets :
         Count(j, nodes_[i].prev) = IF Sq(j) = i THEN 1 ELSE 0
    /\ \A j \in Offsets :
         Cardinality({i \in Offsets : Count(j, nodes_[i].prev) > 0}) = 1
    /\ SumLen(m) = m

\* A node with several predecessors beside a node with none.
C7_Witness ==
  /\ Connected
  /\ \E i \in Offsets, j \in Offsets :
       Len(nodes_[i].prev) > 2 /\ Len(nodes_[j].prev) = 0

(***************************************************************************)
(* The command line.                                                       *)
(***************************************************************************)
\* The argument is no modulus: text that is no number, or a number below 2.
InvalidArg == arg.kind = "text" \/ (arg.kind = "int" /\ arg.val <= 1)

\* The run has gone past the member initialisers and the test of m.
Computing ==
  pc \in {"connect", "partition", "write_neato", "go", "iterate", "write_asy",
          "abort", "crash", "return0"}

\* C8: a run started with an invalid modulus ends in a fatal error that is
\* raised before any computation: the run never goes on to build the graph,
\* place the nodes, minimise or write a file, and it never returns success.
C8_InvalidModulusRejected ==
  InvalidArg => /\ ~Computing
                /\ files = {}
                /\ pc # "construct" => (nodes_ = Idle /\ positions_ = Idle)

(***************************************************************************)
(* The force field.                                                        *)
(***************************************************************************)
\* net_force_and_pot has been called and the run is between two steps.
Evaluated ==
  /\ build \in {"gsl", "gsl2"}
  /\ pc \in {"iterate", "write_asy", "return0"}

\* The terms of the sequence q that the function 'by' added.
TermsBy(q, by) == SelectSeq(q, LAMBDA t : t.by = by)

\* i and j are joined by an edge of the squaring graph, in either direction.
Joined(i, j) == Sq(i) = j \/ Sq(j) = i

\* The entries of potential_ that the pair i < j added.
PotentialOf(i, j) ==
  {k \in 1 .. Len(potential_) : potential_[k].i = i /\ potential_[k].j = j}

\* C9: in one evaluation of the force field every unordered pair of distinct
\* nodes gets exactly one repulsion term (potential 1/r, force -u/r^2 on i,
\* the opposite on j), and one edge term of spring constant 1/edge_attract_
\* if and only if next(i) = j or next(j) = i: a 2-cycle gets a single edge
\* term and a pair joined by no edge gets none.
C9_RepulsionAndEdge ==
  Evaluated =>
    \A i \in Offsets, j \in Offsets :
      i < j =>
        LET f == forces_[<<i, j>>]
            g == forces_[<<j, i>>]
            r == TermsBy(f.terms, "repulsion")
            e == TermsBy(f.terms, "edge")
        IN  /\ f.d = VecSub(at_[j], at_[i])
            /\ g = [f EXCEPT !.d = VecSub(at_[i], at_[j])]
            /\ Len(r) = 1
            /\ r[1].law = "inv_sq" /\ r[1].k = <<1, 1>>
            /\ Len(e) = (IF Joined(i, j) THEN 1 ELSE 0)
            /\ \A k \in 1 .. Len(e) :
                 e[k].law = "spring" /\ RatEq(e[k].k, <<2, 3>>)
            /\ Cardinality(PotentialOf(i, j)) = 1
            /\ \A k \in PotentialOf(i, j) : potential_[k].terms = f.terms

\* An evaluation with a 2-cycle, an edge in one direction only, and a pair
\* joined by no edge.
C9_Witness ==
  /\ Evaluated
  /\ \E i \in Offsets, j \in Offsets :
       i < j /\ Sq(i) = j /\ Sq(j) = i
       /\ Len(TermsBy(forces_[<<i, j>>].terms, "edge")) = 1
  /\ \E i \in Offsets, j \in Offsets :
       i < j /\ Joined(i, j) /\ ~(Sq(i) = j /\ Sq(j) = i)
       /\ Len(TermsBy(forces_[<<i, j>>].terms, "edge")) = 1
  /\ \E i \in Offsets, j \in Offsets :
       i < j /\ ~Joined(i, j)
       /\ Len(TermsBy(forces_[<<i, j>>].terms, "edge")) = 0

\* The sum of the spring constants of the terms of q.
RECURSIVE TotalK(_)
TotalK(q) == IF q = <<>> THEN <<0, 1>> ELSE RatAdd(q[1].k, TotalK(Tail(q)))

\* The divisors d of the modulus with 1 < d < m.
NontrivialDivisors == {d \in 2 .. m - 1 : m % d = 0}

\* The spring constant that the sum of i and j earns: 1/sum_attract_ for a
\* sum of 0, d/(m * sum_attract_) for a sum of d or m - d, and 0 otherwise.
SumConstant(i, j) ==
  LET sum == (i + j) % m
      D   == {d \in NontrivialDivisors : sum = d \/ sum = m - d}
  IN  IF sum = 0 THEN <<1, 15>>
      ELSE IF D # {} THEN <<CHOOSE d \in D : TRUE, m * 15>>
      ELSE <<0, 1>>

\* C10: for every pair of distinct nodes the total spring constant that
\* sum_attract applies is 1/sum_attract_ when (i+j) mod N = 0,
\* d/(N*sum_attract_) when (i+j) mod N is a nontrivial divisor d of N or
\* N - d, and 0 otherwise.
C10_SumConstant ==
  Evaluated =>
    \A i \in Offsets, j \in Offsets :
      i < j => RatEq(TotalK(TermsBy(forces_[<<i, j>>].terms, "sum")),
                     SumConstant(i, j))

\* k is 0, a divisor d of the modulus with 2 <= d <= m/2, or m - d.
FactorLike(k) ==
  \/ k = 0
  \/ \E d \in 2 .. m \div 2 : m % d = 0 /\ (k = d \/ k = m - d)

\* C11: factor_attract adds an attraction to a pair of distinct nodes if and
\* only if one of the two is 0, a nontrivial divisor d of N (2 <= d <= N/2),
\* or N - d; a pair in which neither index has one of these forms gets none.
C11_FactorAttract ==
  Evaluated =>
    \A i \in Offsets, j \in Offsets :
      i < j => (Len(TermsBy(forces_[<<i, j>>].terms, "factor")) > 0
                  <=> (FactorLike(i) \/ FactorLike(j)))

\* The elements of a sequence.
Range(q) == {q[k] : k \in 1 .. Len(q)}

\* factors is what the claim says calculate_factors returns for the modulus.
ExactFactors(factors) ==
  /\ Range(factors) = {0} \cup {d \in 2 .. m \div 2 : m % d = 0}
  /\ Cardinality(Range(factors)) = Len(factors)

\* C12: calculate_factors(m) returns exactly 0 together with every d with
\* 2 <= d <= m/2 and m mod d = 0: 1 is not included, m is not included, and
\* no value appears twice.
C12_CalculateFactors ==
  /\ sum_factors # <<>> => ExactFactors(sum_factors)
  /\ fac_factors # <<>> => ExactFactors(fac_factors)

\* g is the exact negative of f, both being numbers.
IsNegative(f, g) ==
  /\ ~f.div0 /\ ~g.div0
  /\ g.d = VecNeg(f.d)
  /\ g.r2 = f.r2
  /\ g.terms = f.terms

\* The sequences of the sequence q, one after the other.
RECURSIVE Flatten(_)
Flatten(q) == IF q = <<>> THEN <<>> ELSE q[1] \o Flatten(Tail(q))

\* The sum over all nodes of coordinate c of their net force is zero: no
\* summand was computed with r = 0, the spring parts add up to 0, and the
\* repulsions at every distance add up to 0.
NetSumIsZero(c) ==
  LET comp == [k \in 1 .. m |-> net_forces_[3 * (k - 1) + c - 1]]
      all  == Flatten([k \in 1 .. m |-> comp[k].rep])
      At(r2) == SelectSeq(all, LAMBDA e : e[2] = r2)
  IN  /\ \A k \in 1 .. m : ~comp[k].div0
      /\ IntSum([k \in 1 .. m |-> comp[k].spring]) = 0
      /\ \A n \in 1 .. Len(all) :
           IntSum([e \in 1 .. Len(At(all[n][2])) |-> At(all[n][2])[e][1]]) = 0

NetForcesSumToZero == \A c \in 1 .. 3 : NetSumIsZero(c)

\* C13: after every evaluation the force table is antisymmetric: the force
\* on i from j is the exact negative of the force on j from i, the entry of
\* a node with itself is zero, and the net forces of all nodes sum to the
\* zero vector.
C13_Antisymmetric ==
  Evaluated =>
    /\ \A i \in Offsets, j \in Offsets :
         IF i = j THEN forces_[<<i, j>>] = ZeroForce
         ELSE IsNegative(forces_[<<i, j>>], forces_[<<j, i>>])
    /\ NetForcesSumToZero

\* C15: an evaluation of the force field never divides by a zero distance,
\* whatever the positions: two nodes at the same place are dealt with before
\* d/r, 1/r or 1/r^2 is computed.
C15_NoDivisionByZero ==
  Evaluated => \A i \in Offsets, j \in Offsets : ~forces_[<<i, j>>].div0

(***************************************************************************)
(* The gradient and the potential handed to the solver.                    *)
(***************************************************************************)
\* Minus coordinate c of the net force on node k, from the force table.
MinusNetForce(k, c) ==
  [spring |-> 0 - IntSum([j \in 1 .. m |->
                SpringTotal(forces_[<<k, j - 1>>].terms)
                  * forces_[<<k, j - 1>>].d[c]]),
   rep    |-> [j \in 1 .. m |-> <<0 - forces_[<<k, j - 1>>].d[c],
                                  forces_[<<k, j - 1>>].r2>>],
   div0   |-> \E j \in Offsets : forces_[<<k, j>>].div0]

\* The potential of the force table: every pair i < j once.
TablePotential ==
  LET q == Pairs(m)
  IN  [spring |-> IntSum([n \in 1 .. Len(q) |->
                    SpringTotal(forces_[q[n]].terms) * forces_[q[n]].r2]),
       rep    |-> [n \in 1 .. Len(q) |-> forces_[q[n]].r2],
       div0   |-> \E n \in 1 .. Len(q) : forces_[q[n]].div0]

\* The solver holds a gradient, or a potential, of the last evaluation.
GradientIsCurrent == Evaluated /\ gsl.alloc > gsl.free /\ gsl.grd_at = at_
PotentialIsCurrent == Evaluated /\ gsl.alloc > gsl.free /\ gsl.pot_at = at_

\* C14: the gradient that df and fdf hand to the solver is the negative of
\* the net force, with the indexing of the position vector: component
\* 3k + c is minus coordinate c of the net force on node k at the same x;
\* and the potential that fdf returns is that of f at x.
C14_GradientIsMinusForce ==
  /\ GradientIsCurrent =>
       /\ DOMAIN gsl.grd = 0 .. 3 * m - 1
       /\ \A k \in Offsets, c \in 1 .. 3 :
            gsl.grd[3 * k + c - 1] = MinusNetForce(k, c)
  /\ PotentialIsCurrent => gsl.pot = TablePotential

\* A callback has handed over a gradient and a potential at a point that is
\* not the starting point, with a component that is not zero.
C14_Witness ==
  /\ GradientIsCurrent
  /\ PotentialIsCurrent
  /\ at_ # positions_
  /\ m > 2
  /\ \E i \in 0 .. 3 * m - 1 : gsl.grd[i].spring # 0

(***************************************************************************)
(* One process that constructs a minimizer after another.  The statics of  *)
(* sum_attract and factor_attract belong to the process: they are          *)
(* initialised by the first call and outlive every minimizer.              *)
(***************************************************************************)
\* nodes_ after connect() for a modulus n.
RECURSIVE ConnectFrom(_, _, _, _)
ConnectFrom(nodes, cur, n, b) ==
  IF cur >= n THEN nodes
  ELSE ConnectFrom(
         ConnectBody(nodes, cur,
                     (CHOOSE r \in SquareModOutcomes(cur, n) : ~r.trap).val, b),
         cur + 1, n, b)

ReuseModuli == 2 .. MaxForceN

\* A minimizer for the modulus n, not yet used.
FreshMinimizer(n) ==
  /\ m' = n
  /\ nodes_' = (IF build = "gsl" THEN ConnectFrom(NewNodes(n), 0, n, build)
                                 ELSE Idle)
  /\ at_' = Idle
  /\ forces_' = Idle
  /\ net_forces_' = Idle
  /\ potential_' = <<>>

InitReuse ==
  /\ build \in {"gsl", "gsl2"}
  /\ arg = [kind |-> "none", val |-> 0]
  /\ pc = "reuse"
  /\ m \in ReuseModuli
  /\ nodes_ = (IF build = "gsl" THEN ConnectFrom(NewNodes(m), 0, m, build)
                                ELSE Idle)
  /\ subgraphs_ = <<>>
  /\ cur_off = 0
  /\ n_off = 0
  /\ thrown = "none"
  /\ positions_ = Idle
  /\ x_ = Idle
  /\ at_ = Idle
  /\ forces_ = Idle
  /\ net_forces_ = Idle
  /\ potential_ = <<>>
  /\ sum_factors = <<>>
  /\ fac_factors = <<>>
  /\ iter = 0
  /\ status = "none"
  /\ files = {}
  /\ gsl = NoSolver
  /\ orbit = NoOrbit
  /\ LibIdle
  /\ sq = [n |-> 0, i |-> 0, done |-> FALSE, trap |-> FALSE, val |-> 0]

\* The force field of the current minimizer is evaluated at some positions.
Evaluate ==
  /\ pc = "reuse"
  /\ \E xe \in init_loc(m) : net_force_and_pot(xe)
  /\ UNCHANGED <<build, arg, pc, m, nodes_, subgraphs_, cur_off, n_off,
                 thrown, positions_, x_, iter, status, files, gsl, sq, orbit, lib>>

\* The minimizer is destroyed and one for another modulus is constructed.
NewMinimizer ==
  /\ pc = "reuse"
  /\ \E n \in ReuseModuli \ {m} : FreshMinimizer(n)
  /\ UNCHANGED <<build, arg, pc, subgraphs_, cur_off, n_off, thrown,
                 positions_, x_, sum_factors, fac_factors, iter, status,
                 files, gsl, sq, orbit, lib>>

NextReuse == Evaluate \/ NewMinimizer

SpecReuse == InitReuse /\ [][NextReuse]_vars

\* The force felt by i from j at pos as the modulus and pos alone fix it.
PureForce(i, j, pos) ==
  LET d == VecSub(pos[j], pos[i])
      factors == calculate_factors(m, build)
  IN  [d |-> d, r2 |-> Norm2(d), div0 |-> (Norm2(d) = 0),
       terms |-> repulsion \o edge_attract(i, j)
                 \o sum_attract(i, j, factors) \o factor_attract(i, j, factors)]

\* C16: an evaluation of the force field depends only on the modulus and on
\* the positions it is given: whatever was evaluated before, and whatever
\* minimizer the process held before, the forces and the potential are those
\* that the modulus and the positions fix; the potential does not accumulate
\* and the divisor table used is that of the current modulus.
C16_PureEvaluation ==
  (pc = "reuse" /\ at_ # Idle) =>
    /\ \A i \in Offsets, j \in Offsets :
         i < j => forces_[<<i, j>>] = PureForce(i, j, at_)
    /\ Len(potential_) = Len(Pairs(m))
    /\ \A k \in 1 .. Len(potential_) :
         potential_[k].terms
           = PureForce(potential_[k].i, potential_[k].j, at_).terms
    /\ sum_factors = calculate_factors(m, build)
    /\ fac_factors = calculate_factors(m, build)

(***************************************************************************)
(* The driver loop.                                                        *)
(***************************************************************************)
\* The driver has left its loop.
LoopLeft == build \in {"gsl", "gsl2"} /\ pc \in {"write_asy", "return0"}

\* C17: the driver loop always terminates: it makes at most MAX_ITER passes,
\* and it stops at the first pass at which the call of iterate reports an
\* error or the tolerance test reports success, so the loop is only ever
\* running with fewer than MAX_ITER passes made and a status of GSL_CONTINUE.
C17_DriverTerminates ==
  /\ [](iter <= MAX_ITER)
  /\ [](pc = "iterate" => (iter < MAX_ITER /\ status = "GSL_CONTINUE"))
  /\ (pc = "iterate") ~> LoopLeft

\* The loop was ended by the cap on the number of passes.
C17_Witness ==
  LoopLeft /\ iter = MAX_ITER /\ status = "GSL_CONTINUE" /\ m > 1

\* C18: non-convergence is no failure: on every way out of the loop
\* (tolerance met, cap reached, error of the solver) the driver returns
\* normally, the caller's positions are those of the solver's point, and the
\* solver has been released exactly once; and no pass follows convergence.
C18_ExitPaths ==
  /\ [](LoopLeft =>
          /\ thrown = "none"
          /\ status \in {"GSL_SUCCESS", "GSL_CONTINUE", "GSL_ENOPROG",
                         "GSL_FAILURE"}
          /\ status = "GSL_CONTINUE" => iter = MAX_ITER
          /\ positions_ = x_
          /\ gsl.alloc = 1 /\ gsl.free = 1)
  /\ [](pc = "iterate" => (gsl.alloc = 1 /\ gsl.free = 0))
  /\ [][status = "GSL_SUCCESS" => (iter' = iter /\ status' = status)]_vars

\* The loop was ended by an error of the solver that is not convergence, and
\* the positions are no longer those the solver was started at.
C18_Witness ==
  /\ LoopLeft
  /\ status = "GSL_ENOPROG"
  /\ gsl.free = 1
  /\ m > 1
  /\ positions_ = Snapshot(1, m)
  /\ at_ = Snapshot(0, m)

(***************************************************************************)
(* The orbit of a node: graph::next applied again and again.  path holds   *)
(* the nodes left behind, cur the value that next returned last.  The      *)
(* orbit is followed until it comes back to a value it has left behind, or *)
(* leaves the nodes 0 .. m - 1, or the multiplication traps.               *)
(***************************************************************************)
InitOrbit ==
  /\ build = "gsl2"
  /\ arg = [kind |-> "none", val |-> 0]
  /\ pc = "orbit"
  /\ m \in SquareModuli
  /\ \E k \in 1 .. ArgSpan :
       /\ k <= m
       /\ orbit = [cur |-> m - k, path |-> <<>>, trap |-> FALSE]
  /\ LibIdle
  /\ nodes_ = Idle
  /\ subgraphs_ = <<>>
  /\ cur_off = 0
  /\ n_off = 0
  /\ thrown = "none"
  /\ positions_ = Idle
  /\ x_ = Idle
  /\ at_ = Idle
  /\ forces_ = Idle
  /\ net_forces_ = Idle
  /\ potential_ = <<>>
  /\ sum_factors = <<>>
  /\ fac_factors = <<>>
  /\ iter = 0
  /\ status = "none"
  /\ files = {}
  /\ gsl = NoSolver
  /\ sq = [n |-> 0, i |-> 0, done |-> FALSE, trap |-> FALSE, val |-> 0]

\* The orbit has come back to a value it has left behind.
Returned == \E k \in 1 .. Len(orbit.path) : orbit.path[k] = orbit.cur

\* n = next(n)
OrbitStep ==
  /\ pc = "orbit"
  /\ ~orbit.trap
  /\ orbit.cur \in Offsets
  /\ ~Returned
  /\ \E r \in graph_next(orbit.cur, m) :
       orbit' = [cur |-> r.val, path |-> Append(orbit.path, orbit.cur),
                 trap |-> r.trap]
  /\ UNCHANGED <<build, arg, pc, m, nodes_, subgraphs_, cur_off, n_off,
                 thrown, positions_, x_, at_, forces_, net_forces_, potential_,
                 sum_factors, fac_factors, iter, status, files, gsl, sq, lib>>

SpecOrbit == InitOrbit /\ [][OrbitStep]_vars /\ WF_vars(OrbitStep)

\* C19: for every N > 1 and every start node, following next again and again
\* reaches, after at most N steps, a node that maps to itself or a cycle of
\* two or more nodes: every value of the orbit is a node, no step fails, and
\* within N steps the orbit is back at a node it has been at, from where it
\* repeats.
C19_OrbitsPeriodic ==
  /\ [](pc = "orbit" =>
          /\ ~orbit.trap
          /\ orbit.cur \in Offsets
          /\ Len(orbit.path) <= m)
  /\ <>(pc = "orbit" => Returned)

(***************************************************************************)
(* partition() called again on the graph that partition() has left, with   *)
(* the edges that connect() made.                                          *)
(***************************************************************************)
InitRepartition ==
  /\ build \in {"neato", "gsl"}
  /\ arg = [kind |-> "none", val |-> 0]
  /\ pc = "partition"
  /\ m \in MinArg .. MaxN
  /\ nodes_ = ConnectFrom(NewNodes(m), 0, m, build)
  /\ subgraphs_ = <<>>
  /\ cur_off = m
  /\ n_off = 0
  /\ thrown = "none"
  /\ positions_ = Idle
  /\ x_ = Idle
  /\ at_ = Idle
  /\ forces_ = Idle
  /\ net_forces_ = Idle
  /\ potential_ = <<>>
  /\ sum_factors = <<>>
  /\ fac_factors = <<>>
  /\ iter = 0
  /\ status = "none"
  /\ files = {}
  /\ gsl = NoSolver
  /\ orbit = NoOrbit
  /\ LibIdle
  /\ sq = [n |-> 0, i |-> 0, done |-> FALSE, trap |-> FALSE, val |-> 0]

\* The first call has returned; partition() is entered again.
PartitionAgain ==
  /\ pc = "partition"
  /\ ~(n_off < m)
  /\ pc' = "repartition"
  /\ n_off' = 0
  /\ UNCHANGED <<build, arg, m, nodes_, subgraphs_, cur_off, thrown,
                 positions_, x_, at_, forces_, net_forces_, potential_,
                 sum_factors, fac_factors, iter, status, files, gsl, sq, orbit, lib>>

\* One iteration of the loop of the second call.
RepartitionStep ==
  /\ pc = "repartition"
  /\ n_off < m
  /\ LET st == PartitionBody(Entry(nodes_, subgraphs_), n_off)
     IN  /\ nodes_' = st.nodes
         /\ subgraphs_' = st.subgraphs
         /\ thrown' = st.thrown
         /\ IF st.thrown = "none"
              THEN /\ n_off' = n_off + 1
                   /\ pc' = pc
              ELSE /\ n_off' = n_off
                   /\ pc' = "terminate"
  /\ UNCHANGED <<build, arg, m, cur_off, positions_, x_, at_, forces_,
                 net_forces_, potential_, sum_factors, fac_factors, iter,
                 status, files, gsl, sq, orbit, lib>>

NextRepartition == PartitionStep \/ PartitionAgain \/ RepartitionStep

SpecRepartition == InitRepartition /\ [][NextRepartition]_vars

\* C20: partition() run again on a partitioned graph whose edges have not
\* changed leaves the components as they are: no node changes its subgraph
\* id, no subgraph gains or loses a member, no subgraph is added, and nothing
\* is thrown.
C20_RepartitionKeeps ==
  [][pc = "repartition" =>
       /\ nodes_' = nodes_
       /\ subgraphs_' = subgraphs_
       /\ thrown' = "none"]_vars

\* The second call has gone through every node of a graph of more than two
\* components, one of them of several nodes.
C20_Witness ==
  /\ pc = "repartition"
  /\ n_off = m
  /\ Len(subgraphs_) > 2
  /\ \E s \in 1 .. Len(subgraphs_) : Cardinality(subgraphs_[s]) > 1
  /\ \A n \in Offsets : nodes_[n].subg > -1

(***************************************************************************)
(* The order of the phases of graph::graph(int m).                         *)
(***************************************************************************)
\* connect() has set next of every node (the build without a node table
\* computes next when it is asked for).
EdgesBuilt == \A n \in DOMAIN nodes_ : nodes_[n].next # -1

\* partition() has given every node its subgraph.
Labelled == \A n \in DOMAIN nodes_ : nodes_[n].subg # -1

\* The initialiser list has run for a modulus that has nodes.
Positioned == m > 0 /\ positions_ # Idle

\* A force has been evaluated, or the solver has been set up.
Minimising == forces_ # Idle \/ gsl.alloc > 0

\* The minimisation has returned: the solver has been set up and released.
Minimised == gsl.alloc = 1 /\ gsl.free = 1

AsyWritten == \E f \in files : f.name = <<m, "asy">>

NeatoWritten == \E f \in files : f.name # <<m, "asy">>

StoreLen == 4       \* elements of the array
MaxStride == 2      \* strides 1 .. MaxStride are asked for

\* No run of modgraph: the library is used on its own.
NoProgram(label) ==
  /\ build = "gsl"
  /\ arg = [kind |-> "none", val |-> 0]
  /\ pc = label
  /\ m = 0
  /\ nodes_ = Idle
  /\ subgraphs_ = <<>>
  /\ cur_off = 0
  /\ n_off = 0
  /\ thrown = "none"
  /\ positions_ = Idle
  /\ x_ = Idle
  /\ at_ = Idle
  /\ forces_ = Idle
  /\ net_forces_ = Idle
  /\ potential_ = <<>>
  /\ sum_factors = <<>>
  /\ fac_factors = <<>>
  /\ iter = 0
  /\ status = "none"
  /\ files = {}
  /\ gsl = NoSolver
  /\ orbit = NoOrbit
  /\ sq = [n |-> 0, i |-> 0, done |-> FALSE, trap |-> FALSE, val |-> 0]

program == <<build, arg, m, nodes_, subgraphs_, cur_off, n_off, thrown,
             positions_, x_, at_, forces_, net_forces_, potential_,
             sum_factors, fac_factors, iter, status, files, gsl, sq, orbit>>

\* The values that are written.
Doubles == {0, 1}

\* gsl_vector_view_array_with_stride(base, stride, n), base the array itself
gsl_vector_view_array_with_stride(stride, n) ==
  [data |-> 0, stride |-> stride, size |-> n,
   made |-> [of |-> 0, offset |-> 0, stride |-> stride]]

\* gsl_vector_subvector_with_stride(v, offset, stride, n), v the view number p
MutSubvector(p, v, offset, stride, n) ==
  [data |-> v.data + v.stride * offset, stride |-> stride, size |-> n,
   made |-> [of |-> p, offset |-> offset, stride |-> stride]]
gsl_vector_subvector_with_stride(p, v, offset, stride, n) ==
  [data |-> v.data + v.stride * offset, stride |-> v.stride * stride,
   size |-> n, made |-> [of |-> p, offset |-> offset, stride |-> stride]]

\* The place in the array of element i of the view v: data()[i * stride()]
Place(v, i) == v.data + i * v.stride

\* operator[] const and get(i), for i < size()
Get(mem, v, i) == mem[Place(v, i) + 1]

InitView ==
  /\ NoProgram("views")
  /\ strided = [mem |-> [a \in 1 .. StoreLen |-> 0], views |-> <<>>,
                last |-> <<>>]
  /\ relax = Idle
  /\ psys = Idle
  /\ dyn = Idle

\* makeVector(data, n, stride), vector<VIEW>(d, n, stride): the caller keeps
\* the view inside the array.
ViewArray ==
  /\ pc = "views"
  /\ strided.views = <<>>
  /\ \E n \in 1 .. StoreLen, s \in 1 .. MaxStride :
       /\ (n - 1) * s < StoreLen
       /\ strided' = [strided EXCEPT
            !.views = <<gsl_vector_view_array_with_stride(s, n)>>]
  /\ UNCHANGED <<pc, program, relax, psys, dyn>>

\* v.subvector(offset, n, stride) of the first view.  GSL calls its error
\* handler, which aborts, when the subvector would extend past the end of v.
Subvector ==
  /\ pc = "views"
  /\ Len(strided.views) = 1
  /\ \E o \in 0 .. StoreLen - 1, n \in 1 .. StoreLen, s \in 1 .. MaxStride :
       IF o + (n - 1) * s >= strided.views[1].size
         THEN /\ pc' = "abort"
              /\ strided' = strided
         ELSE /\ pc' = pc
              /\ strided' = [strided EXCEPT !.views = Append(@,
                   gsl_vector_subvector_with_stride(
                     1, strided.views[1], o, s, n))]
  /\ UNCHANGED <<program, relax, psys, dyn>>

\* v.set(i, x): gsl_vector_set checks the range and calls the error handler
\* for an i that is not below size().
SetElement ==
  /\ pc = "views"
  /\ \E k \in 1 .. Len(strided.views), i \in 0 .. StoreLen, x \in Doubles :
       IF i >= strided.views[k].size
         THEN /\ pc' = "abort"
              /\ strided' = strided
         ELSE /\ pc' = pc
              /\ strided' = [strided EXCEPT
                   !.mem[Place(strided.views[k], i) + 1] = x,
                   !.last = <<k, i, x>>]
  /\ UNCHANGED <<program, relax, psys, dyn>>

\* v[i]= x, for i < size(): data()[i * stride()]= x
IndexElement ==
  /\ pc = "views"
  /\ \E k \in 1 .. Len(strided.views), x \in Doubles :
       \E i \in 0 .. strided.views[k].size - 1 :
         strided' = [strided EXCEPT
           !.mem[Place(strided.views[k], i) + 1] = x,
           !.last = <<k, i, x>>]
  /\ UNCHANGED <<pc, program, relax, psys, dyn>>

NextView == ViewArray \/ Subvector \/ SetElement \/ IndexElement

SpecView == InitView /\ [][NextView]_vars

\* Element i of view number k read through the view it was made of, or from
\* the array: element offset + i * stride of it.
ThroughParent(k, i) ==
  LET v == strided.views[k]
      e == v.made.offset + i * v.made.stride
  IN  IF v.made.of = 0 THEN strided.mem[e + 1]
      ELSE Get(strided.mem, strided.views[v.made.of], e)

\* The last write is read back through view number k wherever k covers the
\* place that was written.
ReadBack(k) ==
  \A i \in 0 .. strided.views[k].size - 1 :
    Place(strided.views[k], i)
        = Place(strided.views[strided.last[1]], strided.last[2])
      => Get(strided.mem, strided.views[k], i) = strided.last[3]

C23_NoConflict ==
  /\ thrown # "conflict between subgraphs"
  /\ (pc = "partition" /\ n_off < m) =>
       PartitionBody(Entry(nodes_, subgraphs_), n_off).thrown = "none"

\* partition() has returned for a graph with a component of three or more
\* nodes, where the traversal comes back to nodes that it has labelled.
C23_Witness ==
  /\ build = "neato"
  /\ pc = "write_neato"
  /\ thrown = "none"
  /\ \E s \in 1 .. Len(subgraphs_) : Cardinality(subgraphs_[s]) > 2

\* C24: the components are found with a work-list, not by nested calls:
\* partition() calls traverse() for the first node of a component and no call
\* of traverse() is made while another has not returned, whatever the modulus
\* and the size of the component.
C24_NoNestedTraversal ==
  (pc = "partition" /\ n_off < m) =>
    PartitionBody(Entry(nodes_, subgraphs_), n_off).deepest <= 1

(***************************************************************************)
(* The hand-written relaxation loops.  Three generations:                  *)
(*   "minimize"  graph::minimize() with init_forces(): every node is moved *)
(*               in one pass by the same scale, then all forces are        *)
(*               computed anew;                                            *)
(*   "arrange1"  the older graph::arrange_3d(): one node is moved at a     *)
(*               time, by its own scale;                                   *)
(*   "arrange2"  the later graph::arrange_3d(): a pass computes every      *)
(*               force, then every node is moved by the same scale.        *)
(* Only the magnitude of a net force matters to the loops.  It is counted  *)
(* in units of which LimUnits make the step limit (MAX_STEP, NORM_LIM),    *)
(* and every evaluation may yield any magnitude of Mags.  A column of      *)
(* positions_ holds the magnitude <<numerator, denominator>> of the step   *)
(* that was added to it last.                                              *)
(***************************************************************************)
MaxRelaxN == 2      \* moduli 0 .. MaxRelaxN are relaxed
LimUnits == 2       \* the step limit, in units of force magnitude

Relaxations == {"minimize", "arrange1", "arrange2"}

\* constexpr double STOPPING_CRITERION= 10.0 * MAX_STEP;  10.0 * NORM_LIM
STOPPING_CRITERION == 10 * LimUnits

\* Magnitudes around the step limit and around the stopping criterion.
Mags == {0, LimUnits - 1, LimUnits, LimUnits + 1, STOPPING_CRITERION - 1,
         STOPPING_CRITERION, STOPPING_CRITERION + 1}

Columns(n) == [i \in 0 .. n - 1 |-> <<0, 1>>]

\* init_loc of the generation b: the number of locations it makes for n nodes.
init_loc_of(b, n) == IF b = "minimize" THEN Columns(3 * n) ELSE Columns(n)

\* scale= (norm <= NORM_LIM ? 1.0 : NORM_LIM / norm), and
\* scale= 1.0; if(max_force_mag_ > MAX_STEP) scale= MAX_STEP / max_force_mag_
MutScale(mag) == <<1, 1>>
Scale(mag) == IF mag <= LimUnits THEN <<1, 1>> ELSE <<LimUnits, mag>>

\* The magnitude of force * scale.
Step(mag, scale) == <<mag * scale[1], scale[2]>>

\* The greatest of the magnitudes f[0] .. f[n - 1], found as the code finds
\* it: from 0.0, replaced by every magnitude that is greater.
RECURSIVE GreatestFrom(_, _, _, _)
GreatestFrom(f, i, n, max) ==
  IF i >= n THEN max
  ELSE GreatestFrom(f, i + 1, n, IF f[i] > max THEN f[i] ELSE max)

InitRelax ==
  /\ build \in Relaxations
  /\ arg = [kind |-> "none", val |-> 0]
  /\ pc = "relax"
  /\ m \in 0 .. MaxRelaxN
  /\ positions_ = init_loc_of(build, m)
  /\ relax = [norms |-> <<>>, max |-> 0, off |-> 0, passes |-> 0]
  /\ nodes_ = Idle
  /\ subgraphs_ = <<>>
  /\ cur_off = m
  /\ n_off = 0
  /\ thrown = "none"
  /\ x_ = Idle
  /\ at_ = Idle
  /\ forces_ = Idle
  /\ net_forces_ = Idle
  /\ potential_ = <<>>
  /\ sum_factors = <<>>
  /\ fac_factors = <<>>
  /\ iter = 0
  /\ status = "none"
  /\ files = {}
  /\ gsl = NoSolver
  /\ orbit = NoOrbit
  /\ sq = [n |-> 0, i |-> 0, done |-> FALSE, trap |-> FALSE, val |-> 0]
  /\ strided = NoViews
  /\ psys = Idle
  /\ dyn = Idle

\* What the loops leave alone.
relaxed == <<build, arg, m, nodes_, subgraphs_, cur_off, n_off, thrown, x_,
             at_, forces_, net_forces_, potential_, sum_factors, fac_factors,
             iter, status, files, gsl, sq, orbit, strided, psys, dyn>>

\* Every column of a node gets scale * force(i) added.
MoveAll(norms, scale) ==
  [i \in DOMAIN positions_ |->
     IF i < m THEN Step(norms[i], scale) ELSE positions_[i]]

\* graph::minimize(): init_forces() before the loop.
MinimizeStart ==
  /\ pc = "relax"
  /\ build = "minimize"
  /\ \E f \in [Offsets -> Mags] :
       relax' = [relax EXCEPT !.norms = f,
                              !.max = GreatestFrom(f, 0, m, 0)]
  /\ pc' = "while"
  /\ UNCHANGED <<positions_, relaxed>>

\* graph::minimize(): the test of the loop and one pass of its body, which
\* ends with init_forces().
MinimizePass ==
  /\ pc = "while"
  /\ build = "minimize"
  /\ IF relax.max > STOPPING_CRITERION
       THEN /\ positions_' = MoveAll(relax.norms, Scale(relax.max))
            /\ \E f \in [Offsets -> Mags] :
                 relax' = [relax EXCEPT !.norms = f,
                                        !.max = GreatestFrom(f, 0, m, 0),
                                        !.passes = 1]
            /\ pc' = pc
       ELSE /\ pc' = "done"
            /\ UNCHANGED <<positions_, relax>>
  /\ UNCHANGED relaxed

\* The later graph::arrange_3d(): one pass of while(true).
Arrange2Pass ==
  /\ pc = "relax"
  /\ build = "arrange2"
  /\ \E f \in [Offsets -> Mags] :
       LET max_norm == GreatestFrom(f, 0, m, 0)
       IN  /\ relax' = [relax EXCEPT !.norms = f, !.max = max_norm,
                                     !.passes = 1]
           /\ IF max_norm < STOPPING_CRITERION
                THEN /\ pc' = "done"
                     /\ positions_' = positions_
                ELSE /\ pc' = pc
                     /\ positions_' = MoveAll(f, Scale(max_norm))
  /\ UNCHANGED relaxed

\* The older graph::arrange_3d(): one pass of while(true), for the node at
\* off.  With no node, nodes_[0] is outside the vector.
Arrange1Step ==
  /\ pc = "relax"
  /\ build = "arrange1"
  /\ IF m = 0
       THEN /\ pc' = "crash"
            /\ UNCHANGED <<positions_, relax>>
       ELSE \E norm \in Mags :
         LET off == relax.off
             max_norm == IF norm > relax.max THEN norm ELSE relax.max
             norms == IF off = 0 THEN <<norm>> ELSE Append(relax.norms, norm)
         IN  /\ positions_' =
                  [positions_ EXCEPT ![off] = Step(norm, Scale(norm))]
             /\ IF off + 1 >= m
                  THEN /\ pc' = (IF max_norm < STOPPING_CRITERION
                                   THEN "done" ELSE pc)
                       /\ relax' = [norms |-> norms,
                                    max |-> (IF max_norm < STOPPING_CRITERION
                                               THEN max_norm ELSE 0),
                                    off |-> 0, passes |-> 1]
                  ELSE /\ pc' = pc
                       /\ relax' = [relax EXCEPT !.norms = norms,
                                                 !.max = max_norm,
                                                 !.off = off + 1]
  /\ UNCHANGED relaxed

NextRelax == MinimizeStart \/ MinimizePass \/ Arrange2Pass \/ Arrange1Step

SpecRelax == InitRelax /\ [][NextRelax]_vars

\* The magnitudes of the last full pass, one for each node, whether the
\* generation keeps them by offset or in the order of the pass.
LastPass == {relax.norms[i] : i \in DOMAIN relax.norms}

\* C25: init_loc(n) returns exactly n locations: the positions have one
\* column for each node of the modulus, throughout the run.
C25_OneColumnPerNode ==
  pc \in {"relax", "while", "done"} =>
    Cardinality(DOMAIN positions_) = m

\* C29: in the hand-written relaxation loops no node is moved by more than
\* the step limit in one update, and a loop ends only when the greatest
\* net-force magnitude over all nodes, as found in the last full pass, is at
\* or below ten times the limit.
C29_BoundedSteps ==
  /\ \A i \in DOMAIN positions_ :
       positions_[i][1] <= LimUnits * positions_[i][2]
  /\ pc = "done" =>
       /\ Cardinality(DOMAIN relax.norms) = m
       /\ \A f \in LastPass : f <= STOPPING_CRITERION

\* A loop has ended after a pass in which a node with a force above the step
\* limit was moved by exactly the limit.
C29_Witness ==
  /\ pc = "done"
  /\ m > 1
  /\ relax.passes > 0
  /\ \E i \in Offsets :
       /\ positions_[i][1] > 0
       /\ positions_[i][1] = LimUnits * positions_[i][2]
  /\ \E f \in LastPass : f > LimUnits

(***************************************************************************)
(* modgraph::particle_system.  The particles are on a line: a position and *)
(* a displacement are integers, the norm of a displacement is its absolute *)
(* value.  psys.prop[<<i, j>>] is prop(i, j), the effect felt by particle  *)
(* i from particle j.                                                      *)
(***************************************************************************)
MaxParticles == 3   \* systems of up to MaxParticles particles
PosSpan == 3        \* positions -PosSpan .. PosSpan

Places == (0 - PosSpan) .. PosSpan

\* The functions that are passed as 'move'.
Moves == {"none", "pull", "half", "apart"}

Abs(v) == IF v < 0 THEN 0 - v ELSE v

Sign(v) == IF v < 0 THEN -1 ELSE IF v > 0 THEN 1 ELSE 0

\* move_(r)
move_(f, r) ==
  CASE f = "none" -> 0
    [] f = "pull" -> r
    [] f = "half" -> Sign(r) * (Abs(r) \div 2)
    [] f = "apart" -> Abs(r)

\* prop_(Eigen::MatrixXd::Zero(...)) for n particles
ZeroProp(n) == [q \in (0 .. n - 1) \X (0 .. n - 1) |-> 0]

\* What particle_system leaves alone.
outside == <<build, arg, m, nodes_, subgraphs_, cur_off, n_off, thrown,
             positions_, x_, at_, forces_, net_forces_, potential_,
             sum_factors, fac_factors, iter, status, files, gsl, sq, orbit,
             strided, relax, dyn>>

\* particle_system(init, move) is entered: the initialiser list has run.
InitConstruct ==
  /\ NoProgram("ctor_outer")
  /\ strided = NoViews
  /\ relax = Idle
  /\ dyn = Idle
  /\ \E n \in 0 .. MaxParticles :
       \E init \in [0 .. n - 1 -> Places], f \in Moves :
         psys = [N |-> n, positions |-> init, move |-> f,
                 prop |-> ZeroProp(n), i |-> 0, j |-> 0, last |-> <<>>]

\* for(unsigned i= 0; i < N; ++i): the test, and 'unsigned j= i + 1'
ConstructOuter ==
  /\ pc = "ctor_outer"
  /\ IF psys.i < psys.N
       THEN /\ psys' = [psys EXCEPT !.j = psys.i + 1]
            /\ pc' = "ctor_inner"
       ELSE /\ psys' = psys
            /\ pc' = "constructed"
  /\ UNCHANGED outside

\* for(unsigned j= i + 1; j < N; ++i): the test, the body and '++i'; when the
\* test fails, the '++i' of the outer loop.  positions_.col(i) and prop(i, j)
\* for an i that is no particle are outside the matrices: Eigen's assertion
\* stops the program ("crash"), or without assertions memory outside the
\* matrices is read and written ("corrupt").
ConstructInner ==
  /\ pc = "ctor_inner"
  /\ LET i == psys.i
         j == psys.j
     IN  IF j < psys.N
           THEN IF i >= psys.N
                  THEN /\ pc' \in {"crash", "corrupt"}
                       /\ psys' = psys
                  ELSE LET d == move_(psys.move,
                                      psys.positions[j] - psys.positions[i])
                       IN  /\ psys' = [psys EXCEPT
                                 !.prop = [[@ EXCEPT ![<<i, j>>] = d]
                                             EXCEPT ![<<j, i>>] = 0 - d],
                                 !.i = i + 1]
                           /\ pc' = pc
           ELSE /\ psys' = [psys EXCEPT !.i = i + 1]
                /\ pc' = "ctor_outer"
  /\ UNCHANGED outside

\* The table holds, for every pair, the effect that 'move' gives for the
\* positions as they are.
TableCurrent ==
  \A i \in 0 .. psys.N - 1 : \A j \in 0 .. psys.N - 1 :
    i < j =>
      /\ psys.prop[<<i, j>>]
           = move_(psys.move, psys.positions[j] - psys.positions[i])
      /\ psys.prop[<<j, i>>] = 0 - psys.prop[<<i, j>>]

\* The values passed as 'lim'.
Lims == {1, 2}

\* Eigen::VectorXd const p= prop_.rowwise().sum(): the net effect on i
RECURSIVE NetFrom(_, _, _)
NetFrom(prop, i, j) ==
  IF j < 0 THEN 0 ELSE prop[<<i, j>>] + NetFrom(prop, i, j - 1)

NetEffects(prop, n) == [i \in 0 .. n - 1 |-> NetFrom(prop, i, n - 1)]

\* The loop of step(): offset_for_max, from 0 and max_norm 0.0, replaced by
\* every offset whose norm is greater than the greatest before it.
RECURSIVE OffsetForMax(_, _, _, _)
MutOffsetForMax(p, i, n, off) == n - 1
OffsetForMax(p, i, n, off) ==
  IF i >= n THEN off
  ELSE OffsetForMax(p, i + 1, n,
                    IF Abs(p[i]) > (IF off < 0 THEN 0 ELSE Abs(p[off]))
                      THEN i ELSE off)

\* if(max_norm > lim) { max_norm= lim; dspl const u= max_dspl / max_norm;
\* max_dspl= u * lim; }: the division is by the max_norm just assigned.
Clamped(max_dspl, lim) ==
  IF Abs(max_dspl) > lim
    THEN LET max_norm == lim
             u == <<max_dspl, max_norm>>
         IN  (u[1] * lim) \div u[2]
    ELSE max_dspl

\* The value that step() returns.
Returns(max_dspl, lim) == IF Abs(max_dspl) > lim THEN lim ELSE Abs(max_dspl)

\* The loop of move_and_update(j, max_dspl), from particle i on.
RECURSIVE UpdateFrom(_, _, _, _, _, _)
UpdateFrom(prop, pos, f, j, i, n) ==
  IF i >= n THEN prop
  ELSE IF i = j THEN UpdateFrom(prop, pos, f, j, i + 1, n)
  ELSE LET d == move_(f, pos[j] - pos[i])
       IN  UpdateFrom([[prop EXCEPT ![<<i, j>>] = d] EXCEPT ![<<j, i>>] = 0 - d],
                      pos, f, j, i + 1, n)

\* step(lim).  With no particle, positions_.col(0) is outside the matrix,
\* the same two outcomes as in the constructor.
\* Steps that would leave Places are not followed.
StepSystem ==
  /\ pc = "constructed"
  /\ \E lim \in Lims :
       IF psys.N = 0
         THEN /\ pc' \in {"crash", "corrupt"}
              /\ psys' = psys
         ELSE LET p == NetEffects(psys.prop, psys.N)
                  found == OffsetForMax(p, 0, psys.N, -1)
                  off == IF found < 0 THEN 0 ELSE found
                  max_dspl == IF found < 0 THEN 0 ELSE p[found]
                  by == Clamped(max_dspl, lim)
                  pos == [psys.positions EXCEPT ![off] = @ + by]
              IN  /\ pos[off] \in Places
                  /\ pc' = pc
                  /\ psys' = [psys EXCEPT
                       !.positions = pos,
                       !.prop = UpdateFrom(psys.prop, pos, psys.move, off, 0,
                                           psys.N),
                       !.last = [lim |-> lim, off |-> off, net |-> p,
                                 by |-> by, ret |-> Returns(max_dspl, lim),
                                 before |-> psys.positions]]
  /\ UNCHANGED outside

NextConstruct == ConstructOuter \/ ConstructInner \/ StepSystem

\* The constructor goes on while it can, and returns when its loops end.
SpecConstruct ==
  /\ InitConstruct
  /\ [][NextConstruct]_vars
  /\ WF_vars(ConstructOuter \/ ConstructInner)

\* C26: constructing a particle_system of N >= 2 particles terminates with
\* the table holding the initial position-updates of every pair, prop(i,j) =
\* move(position(j) - position(i)) and prop(j,i) = -prop(i,j) for i < j,
\* without an access outside the N particles; and the table still holds the
\* updates for the current positions after any steps.
C26_ConstructedTable ==
  /\ [](psys.N >= 2 => pc \notin {"crash", "corrupt"})
  /\ [](psys.N >= 2 => <>(pc = "constructed"))
  /\ []((psys.N >= 2 /\ pc = "constructed") => TableCurrent)

(***************************************************************************)
(* A particle_system as the constructor is documented to leave it: the     *)
(* positions are the initial ones and the table holds the position-update  *)
(* of every pair.                                                          *)
(***************************************************************************)
InitParticles ==
  /\ NoProgram("constructed")
  /\ strided = NoViews
  /\ relax = Idle
  /\ dyn = Idle
  /\ \E n \in 1 .. MaxParticles :
       \E init \in [0 .. n - 1 -> Places], f \in Moves :
         psys = [N |-> n, positions |-> init, move |-> f,
                 prop |-> [q \in (0 .. n - 1) \X (0 .. n - 1) |->
                             IF q[1] = q[2] THEN 0
                             ELSE IF q[1] < q[2]
                               THEN move_(f, init[q[2]] - init[q[1]])
                               ELSE 0 - move_(f, init[q[1]] - init[q[2]])],
                 i |-> n, j |-> n, last |-> <<>>]

SpecParticles == InitParticles /\ [][StepSystem]_vars

\* The greatest magnitude among the net computed changes that the last step
\* found.
GreatestNet ==
  CHOOSE g \in {Abs(psys.last.net[i]) : i \in 0 .. psys.N - 1} :
    \A i \in 0 .. psys.N - 1 : Abs(psys.last.net[i]) <= g

Changed ==
  {i \in 0 .. psys.N - 1 : psys.positions[i] # psys.last.before[i]}

MaxObjects == 2     \* vector<DYNAMIC> objects that can be alive at once
MaxBuffers == 3     \* allocations in one behaviour

Objects == 1 .. MaxObjects

Wild == -1

Definitions == {"first", "second"}

NoObject == [live |-> FALSE, pv |-> 0, moved |-> FALSE]

\* What vector<DYNAMIC> leaves alone.
unowned == <<build, arg, m, nodes_, subgraphs_, cur_off, n_off, thrown,
             positions_, x_, at_, forces_, net_forces_, potential_,
             sum_factors, fac_factors, iter, status, files, gsl, sq, orbit,
             strided, relax, psys>>

\* gsl_vector_free(p) for p that is not null
gsl_vector_free(d, p) ==
  IF p \in 1 .. Len(d.heap)
    THEN [d EXCEPT !.heap[p] = IF @ = "allocated" THEN "freed" ELSE "twice"]
    ELSE [d EXCEPT !.wild = TRUE]

\* free() of an object whose pv_ is p: if(pv_) gsl_vector_free(pv_);
free(d, p) == IF p # 0 THEN gsl_vector_free(d, p) ELSE d

\* allocate(n): free(), then gsl_vector_alloc or gsl_vector_calloc; the new
\* descriptor is Len(heap) + 1.
allocate(d, p) ==
  LET f == free(d, p)
  IN  [f EXCEPT !.heap = Append(@, "allocated")]

\* What a member that has not been initialised can hold: nullptr, an address
\* that was never allocated, or the address of any descriptor.
Uninitialised(d) == {0, Wild} \cup (1 .. Len(d.heap))

InitDynamic ==
  /\ NoProgram("vectors")
  /\ strided = NoViews
  /\ relax = Idle
  /\ psys = Idle
  /\ \E g \in Definitions :
       dyn = [def |-> g, heap |-> <<>>, wild |-> FALSE,
              objs |-> [o \in Objects |-> NoObject]]

\* vector(size_t n, alloc_type a).  The first definition calls allocate(n)
\* in the initialiser of pv_, where free() reads pv_ before it has a value;
\* the second assigns in the body, after pv_= nullptr.
VectorOfSize ==
  /\ pc = "vectors"
  /\ Len(dyn.heap) < MaxBuffers
  /\ \E o \in Objects :
       /\ ~dyn.objs[o].live
       /\ \E was \in (IF dyn.def = "first" THEN Uninitialised(dyn) ELSE {0}) :
            LET d == allocate(dyn, was)
            IN  dyn' = [d EXCEPT !.objs[o] = [live |-> TRUE,
                                              pv |-> Len(d.heap),
                                              moved |-> FALSE]]
  /\ pc' = pc
  /\ UNCHANGED unowned

\* vector(vector const &src) of the first definition: src.pv_->size, then as
\* VectorOfSize.  src.pv_ being null stops the program.
\* vector(vector<S, V> const &src) of the second: the source is a vector of
\* another kind (the copy constructor from vector<DYNAMIC> is deleted), whose
\* descriptor is part of the source.
VectorCopy ==
  /\ pc = "vectors"
  /\ Len(dyn.heap) < MaxBuffers
  /\ \E o \in Objects :
       /\ ~dyn.objs[o].live
       /\ IF dyn.def = "first"
            THEN \E src \in Objects :
                   /\ dyn.objs[src].live
                   /\ IF dyn.objs[src].pv = 0
                        THEN /\ pc' = "crash"
                             /\ dyn' = dyn
                        ELSE /\ pc' = pc
                             /\ \E was \in Uninitialised(dyn) :
                                  LET d == allocate(dyn, was)
                                  IN  dyn' = [d EXCEPT !.objs[o] =
                                                [live |-> TRUE,
                                                 pv |-> Len(d.heap),
                                                 moved |-> FALSE]]
            ELSE /\ pc' = pc
                 /\ LET d == allocate(dyn, 0)
                    IN  dyn' = [d EXCEPT !.objs[o] = [live |-> TRUE,
                                                      pv |-> Len(d.heap),
                                                      moved |-> FALSE]]
  /\ UNCHANGED unowned

\* vector(vector &&src): pv_(src.pv_), src.pv_= nullptr
VectorMove ==
  /\ pc = "vectors"
  /\ \E o \in Objects, src \in Objects :
       /\ ~dyn.objs[o].live
       /\ dyn.objs[src].live
       /\ dyn' = [dyn EXCEPT
            !.objs[o] = [live |-> TRUE, pv |-> dyn.objs[src].pv,
                         moved |-> FALSE],
            !.objs[src] = [@ EXCEPT !.pv = 0, !.moved = TRUE]]
  /\ pc' = pc
  /\ UNCHANGED unowned

\* operator=(vector const &src) of the first definition, src being any
\* object, this one included: pv_= allocate(src.pv_->size).
\* operator=(vector<S, V> const &src) of the second, from a vector of
\* another kind.
AssignCopy ==
  /\ pc = "vectors"
  /\ Len(dyn.heap) < MaxBuffers
  /\ \E o \in Objects :
       /\ dyn.objs[o].live
       /\ IF dyn.def = "first"
            THEN \E src \in Objects :
                   /\ dyn.objs[src].live
                   /\ IF dyn.objs[src].pv = 0
                        THEN /\ pc' = "crash"
                             /\ dyn' = dyn
                        ELSE /\ pc' = pc
                             /\ LET d == allocate(dyn, dyn.objs[o].pv)
                                IN  dyn' = [d EXCEPT !.objs[o] =
                                              [live |-> TRUE,
                                               pv |-> Len(d.heap),
                                               moved |-> FALSE]]
            ELSE /\ pc' = pc
                 /\ LET d == allocate(dyn, dyn.objs[o].pv)
                    IN  dyn' = [d EXCEPT !.objs[o] = [live |-> TRUE,
                                                      pv |-> Len(d.heap),
                                                      moved |-> FALSE]]
  /\ UNCHANGED unowned

\* operator=(vector &&src), src being any object, this one included.
\* First definition: pv_= src.pv_; src.pv_= nullptr.
\* Second: std::swap(pv_, src.pv_).
AssignMove ==
  /\ pc = "vectors"
  /\ \E o \in Objects, src \in Objects :
       /\ dyn.objs[o].live
       /\ dyn.objs[src].live
       /\ LET mine == dyn.objs[o].pv
              theirs == dyn.objs[src].pv
              taken == [dyn EXCEPT !.objs[o] = [@ EXCEPT !.pv = theirs,
                                                         !.moved = FALSE]]
          IN  dyn' = [taken EXCEPT !.objs[src] =
                        [@ EXCEPT !.pv = IF dyn.def = "first" THEN 0 ELSE mine,
                                  !.moved = TRUE]]
  /\ pc' = pc
  /\ UNCHANGED unowned

\* ~vector(): free()
DestroyVector ==
  /\ pc = "vectors"
  /\ \E o \in Objects :
       /\ dyn.objs[o].live
       /\ dyn' = [free(dyn, dyn.objs[o].pv) EXCEPT !.objs[o] = NoObject]
  /\ pc' = pc
  /\ UNCHANGED unowned

NextDynamic ==
  \/ VectorOfSize
  \/ VectorCopy
  \/ VectorMove
  \/ AssignCopy
  \/ AssignMove
  \/ DestroyVector

SpecDynamic == InitDynamic /\ [][NextDynamic]_vars

\* The live objects whose pv_ is descriptor b.
Owners(b) == {o \in Objects : dyn.objs[o].live /\ dyn.objs[o].pv = b}

\* C30: over any constructions, copies, moves, assignments (an object to
\* itself included) and destructions of vector<DYNAMIC>: no descriptor is
\* freed twice and each that is not yet freed still has an owner to free it,
\* nothing is freed that was not allocated, no live object refers to a freed
\* descriptor, and an object that was moved from owns nothing.
C30_BuffersFreedOnce ==
  /\ \A b \in 1 .. Len(dyn.heap) :
       /\ dyn.heap[b] # "twice"
       /\ dyn.heap[b] = "allocated" => Cardinality(Owners(b)) = 1
  /\ ~dyn.wild
  /\ \A o \in Objects :
       dyn.objs[o].live =>
         /\ dyn.objs[o].pv # Wild
         /\ dyn.objs[o].pv # 0 => dyn.heap[dyn.objs[o].pv] = "allocated"
         /\ dyn.objs[o].moved => dyn.objs[o].pv = 0

\* The part of C30 that needs no uninitialised member: with nothing ever
\* read before it is set, the first definition still loses a descriptor.
C30_FirstDefinitionKeepsOwners ==
  (dyn.def = "first" /\ ~dyn.wild
     /\ \A b \in 1 .. Len(dyn.heap) : dyn.heap[b] # "twice") =>
    \A b \in 1 .. Len(dyn.heap) :
      dyn.heap[b] = "allocated" => Owners(b) # {}

\* The second definition alone: descriptors are freed once and have one
\* owner until then.
C30_SecondDefinitionSafe ==
  dyn.def = "second" =>
    /\ \A b \in 1 .. Len(dyn.heap) :
         /\ dyn.heap[b] # "twice"
         /\ dyn.heap[b] = "allocated" => Cardinality(Owners(b)) = 1
    /\ ~dyn.wild
    /\ \A o \in Objects :
         (dyn.objs[o].live /\ dyn.objs[o].pv # 0) =>
           dyn.heap[dyn.objs[o].pv] = "allocated"

\* The second definition: an object that was moved from by assignment holds
\* the descriptor that the target had.
C30_SecondMovedFromOwnsNothing ==
  dyn.def = "second" =>
    \A o \in Objects :
      (dyn.objs[o].live /\ dyn.objs[o].moved) => dyn.objs[o].pv = 0

====
